---- MODULE Spec2Model ----
(***************************************************************************)
(* A model of the presentation package composer of ai-teaching-assistant:  *)
(* PPTXGeneratorService (backend/utils/pptx_generator/pptx_service.py).    *)
(*                                                                         *)
(* A generation call is a sequential program; its position is pc.  The     *)
(* in-memory document is prs: an ordered sequence of slides, a layout      *)
(* catalog and the canvas dimension.  A slide is its shape tree (shapes,   *)
(* in z-order), its p:timing children (timing) and its notes.  The         *)
(* composers, the sanitizer, the layout resolver and the timing injector   *)
(* are operators over these values; the actions of the generation call     *)
(* apply them in the order of generate_presentation.                       *)
(*                                                                         *)
(* Strings are ASCII: "*" stands for the bullet glyph U+2022 and the       *)
(* emoji of a bullet is a short ASCII tag.  None and the empty string are  *)
(* both falsy in every test the code makes on a path or a text, and None   *)
(* is modelled as "".  Lengths are EMU, as python-pptx stores them.        *)
(***************************************************************************)
EXTENDS Integers, Sequences, FiniteSets, TLC

VARIABLES
    pc,               \* position of the generation call
    template_path,    \* argument: style source reference
    slides,           \* argument: the slide content records
    title_bg_path,    \* argument: background of the title slide
    content_bg_path,  \* argument: background of agenda and content slides
    source,           \* the package Presentation(...) opens for template_path
    prs,              \* the in-memory document
    i,                \* enumerate index of the record being composed
    output_path,      \* the path tempfile.mktemp returned
    saved,            \* the saved artifact
    subject,          \* unit harness: the object an operation is applied to
    call              \* unit harness: the latest call made on it

vars == <<pc, template_path, slides, title_bg_path, content_bg_path, source,
          prs, i, output_path, saved, subject, call>>

genVars == <<pc, template_path, slides, title_bg_path, content_bg_path, source,
             prs, i, output_path, saved>>

-----------------------------------------------------------------------------
(* Bounds of the model.                                                    *)

\* most records in one generation request
MaxRecords == 2

\* most slides a style source holds
MaxSourceSlides == 2

\* most layouts of a catalog beyond the conventional blank index
MaxExtraLayouts == 1

\* most items of an agenda or of a flat content list
MaxItems == 7

\* most structured bullets of one record
MaxBullets == 3

\* most shapes of a slide handed to the sanitizer
MaxShapes == 3

\* most calls made on one slide in the timing harness
MaxCalls == 4

\* requests in flight at the service at once
MaxRequests == 2

-----------------------------------------------------------------------------
(* Units and strings.                                                      *)

\* pptx.util.Inches(x) = int(x * 914400), x given in thousandths of an inch
\* (914400 / 1000 = 4572 / 5); int() truncates toward zero
Inches(thousandths) ==
    LET e == thousandths * 4572
    IN  IF e >= 0 THEN e \div 5 ELSE 0 - ((0 - e) \div 5)

\* pptx.util.Pt(n) = int(n * 12700)
Pt(n) == n * 12700

RGBColor(r, g, b) == <<r, g, b>>

Max(S) == CHOOSE m \in S : \A n \in S : n <= m

Min(S) == CHOOSE m \in S : \A n \in S : m <= n

\* dict.get(key, default)
Get(d, k, default) == IF k \in DOMAIN d THEN d[k] ELSE default

\* pat in text
Contains(text, pat) ==
    \E k \in 1..(Len(text) - Len(pat) + 1) : SubSeq(text, k, k + Len(pat) - 1) = pat

\* text.startswith(pat)
StartsWith(text, pat) ==
    Len(text) >= Len(pat) /\ SubSeq(text, 1, Len(pat)) = pat

UpperChars == "ABCDEFGHIJKLMNOPQRSTUVWXYZ"

LowerChars == "abcdefghijklmnopqrstuvwxyz"

LowerChar(c) ==
    IF \E k \in 1..Len(UpperChars) : SubSeq(UpperChars, k, k) = c
    THEN LET k == CHOOSE k \in 1..Len(UpperChars) : SubSeq(UpperChars, k, k) = c
         IN  SubSeq(LowerChars, k, k)
    ELSE c

RECURSIVE Lower(_)
\* str.lower()
Lower(s) ==
    IF s = "" THEN ""
    ELSE LowerChar(SubSeq(s, 1, 1)) \o Lower(SubSeq(s, 2, Len(s)))

\* os.path.splitext(path)[1]: from the last dot of the last path component,
\* a leading dot of the component not counted
SplitExt(path) ==
    LET seps == {k \in 1..Len(path) : SubSeq(path, k, k) = "/"}
        base == IF seps = {} THEN 1 ELSE Max(seps) + 1
        dots == {k \in (base + 1)..Len(path) : SubSeq(path, k, k) = "."}
    IN  IF dots = {} THEN "" ELSE SubSeq(path, Max(dots), Len(path))

-----------------------------------------------------------------------------
(* The file system the call reads.                                         *)

\* files that exist (os.path.exists)
ExistingPaths ==
    {"theme.pptx", "bg_title.png", "bg_content.png", "broken.png", "pic.png",
     "voice.mp3", "talk.WAV", "voice.ogg", "locked.m4a", "memo.m4a", "old.wma",
     "noext"}

\* existing files whose insertion as a picture or a movie raises
UnreadablePaths == {"broken.png", "locked.m4a"}

os_path_exists(p) == p \in ExistingPaths

-----------------------------------------------------------------------------
(* Paragraphs, shapes and slides.                                          *)

\* the one empty paragraph a new or cleared text frame holds
EmptyParagraph ==
    [text |-> "", font_name |-> "", font_size |-> -1, bold |-> FALSE,
     color |-> <<>>, alignment |-> "", level |-> 0,
     space_before |-> -1, space_after |-> -1]

\* a shape of a slide's shape tree; inspect names the accessor that raises
\* when _clear_placeholders reads it ("none": no accessor raises)
Shape(kind, id, ph, left, top, width, height, paragraphs, path, mime) ==
    [kind |-> kind, shape_id |-> id, is_placeholder |-> ph,
     placeholder_format |-> ph, inspect |-> "none",
     has_text_frame |-> kind \in {"placeholder", "textbox"},
     left |-> left, top |-> top, width |-> width, height |-> height,
     paragraphs |-> paragraphs, path |-> path, mime |-> mime]

\* shapes._next_shape_id: one more than the largest id of the shape tree,
\* whose root holds id 1
NextShapeId(shapes) ==
    Max({1} \cup {shapes[k].shape_id : k \in 1..Len(shapes)}) + 1

\* slide.shapes.add_textbox(left, top, width, height): appended, its frame
\* holding one empty paragraph
AddTextbox(shapes, left, top, width, height) ==
    Append(shapes, Shape("textbox", NextShapeId(shapes), FALSE,
                         left, top, width, height, <<EmptyParagraph>>, "", ""))

\* slide.shapes.add_picture(path, left, top, width, height): appended;
\* an omitted width is -1 (kept from the image's aspect ratio)
AddPicture(shapes, path, left, top, width, height) ==
    Append(shapes, Shape("picture", NextShapeId(shapes), FALSE,
                         left, top, width, height, <<>>, path, ""))

\* slide.shapes.add_movie(path, left, top, width, height, mime_type)
AddMovie(shapes, path, left, top, width, height, mime) ==
    Append(shapes, Shape("media", NextShapeId(shapes), FALSE,
                         left, top, width, height, <<>>, path, mime))

\* add_picture or add_movie raises on this file
InsertRaises(path) == path \in UnreadablePaths

\* the shapes with their last shape's frame replaced
SetLastFrame(shapes, paragraphs) ==
    [shapes EXCEPT ![Len(shapes)].paragraphs = paragraphs]

\* text_frame.text: the paragraphs' texts joined by line feeds
RECURSIVE JoinText(_)
JoinText(paragraphs) ==
    IF paragraphs = <<>> THEN ""
    ELSE IF Len(paragraphs) = 1 THEN paragraphs[1].text
    ELSE paragraphs[1].text \o "\n" \o JoinText(Tail(paragraphs))

MediaShapes(slide) ==
    {k \in 1..Len(slide.shapes) : slide.shapes[k].kind = "media"}

\* a slide with no shape, timing or notes; rec is the position (from 1) of
\* the record it is composed from, 0 for a slide inherited from the source
NewSlide(layout, rec, shapes) ==
    [shapes |-> shapes, timing |-> <<>>, notes |-> "", layout |-> layout,
     rec |-> rec]

-----------------------------------------------------------------------------
(* Layout Resolver: _find_blank_layout.                                    *)

\* index of the standard blank layout (layouts[6])
BlankIndex == 6

\* len(list(layout.placeholders))
NumPlaceholders(layout) == Len(layout.placeholders)

RECURSIVE MinScan(_, _, _, _)
\* the loop of lines 153-157 from position k on; min_placeholders = -1 is
\* float('inf')
MinScan(layouts, k, min_placeholders, best_layout) ==
    IF k > Len(layouts) THEN best_layout
    ELSE LET num_ph == NumPlaceholders(layouts[k])
         IN  IF min_placeholders = -1 \/ num_ph < min_placeholders
             THEN MinScan(layouts, k + 1, num_ph, k)
             ELSE MinScan(layouts, k + 1, min_placeholders, best_layout)

RECURSIVE MinScanLast(_, _, _, _)
MinScanLast(layouts, k, min_placeholders, best_layout) ==
    IF k > Len(layouts) THEN best_layout
    ELSE LET num_ph == NumPlaceholders(layouts[k])
         IN  IF min_placeholders = -1 \/ num_ph <= min_placeholders
             THEN MinScanLast(layouts, k + 1, num_ph, k)
             ELSE MinScanLast(layouts, k + 1, min_placeholders, best_layout)

\* _find_blank_layout with the comparison of line 155 written <=
FindBlankLayoutLastTie(layouts) ==
    IF Len(layouts) > BlankIndex /\ NumPlaceholders(layouts[BlankIndex + 1]) = 0
    THEN BlankIndex + 1
    ELSE IF \E k \in 1..Len(layouts) : NumPlaceholders(layouts[k]) = 0
    THEN Min({k \in 1..Len(layouts) : NumPlaceholders(layouts[k]) = 0})
    ELSE IF Len(layouts) = 0 THEN 0
    ELSE MinScanLast(layouts, 1, -1, Len(layouts))

\* _find_blank_layout: the position (from 1) in the catalog of the layout
\* returned; 0 when layouts[-1] raises IndexError on an empty catalog
FindBlankLayout(layouts) ==
    IF Len(layouts) > BlankIndex /\ NumPlaceholders(layouts[BlankIndex + 1]) = 0
    THEN BlankIndex + 1
    ELSE IF \E k \in 1..Len(layouts) : NumPlaceholders(layouts[k]) = 0
    THEN Min({k \in 1..Len(layouts) : NumPlaceholders(layouts[k]) = 0})
    ELSE IF Len(layouts) = 0 THEN 0
    ELSE MinScan(layouts, 1, -1, Len(layouts))

\* prs.slides.add_slide(layout): the new slide holds a clone of every
\* placeholder of the layout but the date, footer and slide number ones
Cloneable(layout) ==
    SelectSeq(layout.placeholders, LAMBDA t : t \notin {"dt", "ftr", "sldNum"})

ClonePlaceholders(layout) ==
    [k \in 1..Len(Cloneable(layout)) |->
        Shape("placeholder", k + 1, TRUE, 0, 0, 0, 0, <<EmptyParagraph>>, "", "")]

\* the new slide put in front of the slides
AddSlideAtFront(doc, layout_at, rec) ==
    [doc EXCEPT !.slides =
        <<NewSlide(layout_at, rec, ClonePlaceholders(doc.slide_layouts[layout_at]))>>
        \o @]

AddSlide(doc, layout_at, rec) ==
    [doc EXCEPT !.slides =
        Append(@, NewSlide(layout_at, rec,
                           ClonePlaceholders(doc.slide_layouts[layout_at])))]

-----------------------------------------------------------------------------
(* Placeholder Sanitizer: _clear_placeholders.                             *)

\* the text Method 3 tests
InspectedText(shape) == Lower(JoinText(shape.paragraphs))

\* the tests of lines 172-188 with the except branch appending the shape:
\* a shape whose inspection raises is removed as well
ToRemoveOnFault(shape) ==
    IF shape.is_placeholder THEN TRUE
    ELSE IF shape.inspect = "placeholder_format" THEN TRUE
    ELSE IF shape.placeholder_format THEN TRUE
    ELSE IF shape.inspect = "text_frame" THEN TRUE
    ELSE /\ shape.has_text_frame
         /\ \/ Contains(InspectedText(shape), "click to")
            \/ Contains(InspectedText(shape), "master")

\* the try block of lines 172-188 appends the shape to shapes_to_remove;
\* an accessor that raises leaves the shape out (lines 189-191)
ToRemove(shape) ==
    IF shape.is_placeholder THEN TRUE
    ELSE IF shape.inspect = "placeholder_format" THEN FALSE
    ELSE IF shape.placeholder_format THEN TRUE
    ELSE IF shape.inspect = "text_frame" THEN FALSE
    ELSE /\ shape.has_text_frame
         /\ \/ Contains(InspectedText(shape), "click to")
            \/ Contains(InspectedText(shape), "master")

\* _clear_placeholders with Method 1 (lines 173-176) left out
ClearPlaceholdersByTextOnly(slide) ==
    [slide EXCEPT !.shapes =
        SelectSeq(@, LAMBDA s :
            ~ (/\ s.has_text_frame
               /\ \/ Contains(InspectedText(s), "click to")
                  \/ Contains(InspectedText(s), "master")))]

\* _clear_placeholders: every collected shape is detached from the tree
ClearPlaceholders(slide) ==
    [slide EXCEPT !.shapes = SelectSeq(@, LAMBDA s : ~ ToRemove(s))]

-----------------------------------------------------------------------------
(* Slide Composers.                                                        *)

White == RGBColor(255, 255, 255)

Green == RGBColor(58, 102, 77)

\* a paragraph as the composers format it: Arial, the other fields given
Para(text, size, bold, color, alignment, level, before, after) ==
    [text |-> text, font_name |-> "Arial", font_size |-> size, bold |-> bold,
     color |-> color, alignment |-> alignment, level |-> level,
     space_before |-> before, space_after |-> after]

\* the background block each composer starts with (lines 209-222, 301-313,
\* 375-387): add_picture appends the picture and spTree.insert(2, ...)
\* moves it to the front of the shapes; an insertion that raises is caught
AddBackground(shapes, bg_path) ==
    IF bg_path # "" /\ os_path_exists(bg_path) /\ ~ InsertRaises(bg_path)
    THEN LET added == AddPicture(shapes, bg_path, Inches(0), Inches(0),
                                 Inches(10000), Inches(5625))
         IN  <<added[Len(added)]>> \o shapes
    ELSE shapes

\* the title textbox of the agenda and content composers (lines 320-326,
\* 402-408)
AddTopTitle(shapes, title) ==
    SetLastFrame(AddTextbox(shapes, Inches(500), Inches(200), Inches(9000), Inches(800)),
                 <<Para(title, Pt(28), FALSE, White, "CENTER", 0, -1, -1)>>)

\* _add_title_slide with the subtitle text box added whenever the content
\* list is not empty
AddTitleSlideAnySubtitle(slide, slide_data, bg_path) ==
    LET title    == Get(slide_data, "title", "")
        content  == Get(slide_data, "content", <<>>)
        s0 == AddBackground(slide.shapes, bg_path)
        s1 == SetLastFrame(
                  AddTextbox(s0, Inches(1000), Inches(2000), Inches(8000), Inches(1500)),
                  <<Para(title, Pt(44), TRUE, White, "CENTER", 0, -1, -1)>>)
        s2 == IF content # <<>>
              THEN SetLastFrame(
                       AddTextbox(s1, Inches(1000), Inches(3500), Inches(8000), Inches(1000)),
                       <<Para(content[1], Pt(22), FALSE, White, "CENTER", 0, -1, -1)>>)
              ELSE s1
    IN  [slide EXCEPT !.shapes = s2]

\* _add_title_slide
AddTitleSlide(slide, slide_data, bg_path) ==
    LET title    == Get(slide_data, "title", "")
        content  == Get(slide_data, "content", <<>>)
        subtitle == IF content # <<>> THEN content[1] ELSE ""
        s0 == AddBackground(slide.shapes, bg_path)
        s1 == SetLastFrame(
                  AddTextbox(s0, Inches(1000), Inches(2000), Inches(8000), Inches(1500)),
                  <<Para(title, Pt(44), TRUE, White, "CENTER", 0, -1, -1)>>)
        s2 == IF subtitle # ""
              THEN SetLastFrame(
                       AddTextbox(s1, Inches(1000), Inches(3500), Inches(8000), Inches(1000)),
                       <<Para(subtitle, Pt(22), FALSE, White, "CENTER", 0, -1, -1)>>)
              ELSE s1
    IN  [slide EXCEPT !.shapes = s2]

\* the item list of the agenda composer (lines 329-333)
AgendaItems(slide_data) ==
    LET bullets == Get(slide_data, "bullets", <<>>)
        content == Get(slide_data, "content", <<>>)
    IN  IF bullets # <<>>
        THEN [k \in 1..Len(bullets) |->
                 bullets[k].emoji \o " " \o
                 (IF bullets[k].point # "" THEN bullets[k].point
                  ELSE bullets[k].description)]
        ELSE content

\* mid_point = len(items) // 2
MidPointFloor(items) == Len(items) \div 2

\* mid_point = (len(items) + 1) // 2
MidPoint(items) == (Len(items) + 1) \div 2

\* one paragraph per item of a column (lines 345-351, 358-364), after the
\* empty paragraph tf.clear() leaves
ColumnFrame(items) ==
    <<EmptyParagraph>> \o
    [k \in 1..Len(items) |-> Para(items[k], Pt(24), FALSE, Green, "", 0, -1, Pt(16))]

\* _add_agenda_slide
AddAgendaSlide(slide, slide_data, bg_path) ==
    LET title == Get(slide_data, "title", "Noi dung bai hoc")  \* ASCII of the default
        items == AgendaItems(slide_data)
        mid_point == MidPoint(items)
        s0 == AddBackground(slide.shapes, bg_path)
        s1 == AddTopTitle(s0, title)
        s2 == SetLastFrame(
                  AddTextbox(s1, Inches(500), Inches(1200), Inches(4500), Inches(4000)),
                  ColumnFrame(SubSeq(items, 1, mid_point)))
        s3 == SetLastFrame(
                  AddTextbox(s2, Inches(5000), Inches(1200), Inches(4500), Inches(4000)),
                  ColumnFrame(SubSeq(items, mid_point + 1, Len(items))))
    IN  [slide EXCEPT !.shapes = IF items = <<>> THEN s1 ELSE s3]

\* a bullet with a point always followed by a description paragraph
BulletParagraphsAlwaysTwo(bullet) ==
    IF bullet.point # ""
    THEN <<Para(IF bullet.emoji # "" THEN bullet.emoji \o " " \o bullet.point
                ELSE bullet.point,
                Pt(22), TRUE, Green, "", 0, -1, Pt(2)),
           Para(bullet.description, Pt(18), FALSE, Green, "", 1, Pt(0), Pt(8))>>
    ELSE <<Para(bullet.description, Pt(20), FALSE, Green, "", 0, -1, Pt(8))>>

\* the paragraphs one structured bullet adds (lines 423-454)
BulletParagraphs(bullet) ==
    IF bullet.point # ""
    THEN <<Para(IF bullet.emoji # "" THEN bullet.emoji \o " " \o bullet.point
                ELSE bullet.point,
                Pt(22), TRUE, Green, "", 0, -1, Pt(2))>>
         \o (IF bullet.description # ""
             THEN <<Para(bullet.description, Pt(18), FALSE, Green, "", 1, Pt(0), Pt(8))>>
             ELSE <<>>)
    ELSE <<Para(bullet.description, Pt(20), FALSE, Green, "", 0, -1, Pt(8))>>

RECURSIVE BulletListParagraphs(_)
\* the loop of line 422 over the bullets
BulletListParagraphs(bullets) ==
    IF bullets = <<>> THEN <<>>
    ELSE BulletParagraphs(Head(bullets)) \o BulletListParagraphs(Tail(bullets))

\* the flat content list truncated to three items
FlatParagraphsTruncated(content) ==
    [k \in 1..(IF Len(content) > 3 THEN 3 ELSE Len(content)) |->
        Para(IF StartsWith(content[k], "*") THEN content[k] ELSE "* " \o content[k],
             Pt(18), FALSE, Green, "", 0, -1, Pt(6))]

\* the fallback to the flat content list (lines 456-464)
FlatParagraphs(content) ==
    [k \in 1..Len(content) |->
        Para(IF StartsWith(content[k], "*") THEN content[k] ELSE "* " \o content[k],
             Pt(18), FALSE, Green, "", 0, -1, Pt(6))]

\* _add_content_slide_v2 with the background block of lines 375-387 run
\* last and the picture left where add_picture puts it
AddContentSlideV2BackgroundLast(slide, slide_data, bg_path) ==
    LET title      == Get(slide_data, "title", "")
        bullets    == Get(slide_data, "bullets", <<>>)
        content    == Get(slide_data, "content", <<>>)
        image_path == Get(slide_data, "imagePath", "")
        has_image  == image_path # "" /\ os_path_exists(image_path)
        s1 == AddTopTitle(slide.shapes, title)
        s2 == AddTextbox(s1, Inches(500), Inches(1200),
                         IF has_image THEN Inches(4500) ELSE Inches(9000), Inches(4000))
        s3 == SetLastFrame(s2,
                  <<EmptyParagraph>> \o
                  (IF bullets # <<>> THEN BulletListParagraphs(bullets)
                   ELSE FlatParagraphs(content)))
        s4 == IF has_image /\ ~ InsertRaises(image_path)
              THEN AddPicture(s3, image_path, Inches(5500), Inches(1500), -1, Inches(3000))
              ELSE s3
        s5 == IF bg_path # "" /\ os_path_exists(bg_path) /\ ~ InsertRaises(bg_path)
              THEN AddPicture(s4, bg_path, Inches(0), Inches(0),
                              Inches(10000), Inches(5625))
              ELSE s4
    IN  [slide EXCEPT !.shapes = s5]

\* _add_content_slide_v2
AddContentSlideV2(slide, slide_data, bg_path) ==
    LET title      == Get(slide_data, "title", "")
        bullets    == Get(slide_data, "bullets", <<>>)
        content    == Get(slide_data, "content", <<>>)
        image_path == Get(slide_data, "imagePath", "")
        has_image  == image_path # "" /\ os_path_exists(image_path)
        s0 == AddBackground(slide.shapes, bg_path)
        s1 == AddTopTitle(s0, title)
        s2 == AddTextbox(s1, Inches(500), Inches(1200),
                         IF has_image THEN Inches(4500) ELSE Inches(9000), Inches(4000))
        s3 == SetLastFrame(s2,
                  <<EmptyParagraph>> \o
                  (IF bullets # <<>> THEN BulletListParagraphs(bullets)
                   ELSE FlatParagraphs(content)))
        s4 == IF has_image /\ ~ InsertRaises(image_path)
              THEN AddPicture(s3, image_path, Inches(5500), Inches(1500), -1, Inches(3000))
              ELSE s3
    IN  [slide EXCEPT !.shapes = s4]

\* MAX_BULLETS of the flat fallback of _add_content_slide (line 607)
MAX_BULLETS == 6

\* MAX_BULLETS of the structured bullets of _add_content_slide (line 562)
MAX_BULLETS_STRUCTURED == 5

\* the font size _add_content_slide picks for a flat list (lines 612-617)
LegacyFontSize(n) == IF n <= 3 THEN Pt(16) ELSE IF n <= 5 THEN Pt(14) ELSE Pt(12)

\* content[:limit]
Truncate(list, limit) == IF Len(list) > limit THEN SubSeq(list, 1, limit) ELSE list

\* the flat fallback of _add_content_slide (lines 605-629): the frame it
\* leaves, from a frame of one empty paragraph
LegacyFlatFrame(content) ==
    LET kept == Truncate(content, MAX_BULLETS)
    IN  IF kept = <<>> THEN <<EmptyParagraph>>
        ELSE [k \in 1..Len(kept) |->
                 Para("* " \o kept[k], LegacyFontSize(Len(kept)), FALSE, Green,
                      "", 0, -1, Pt(6))]

\* _add_image
AddImage(shapes, image_path, has_content) ==
    IF InsertRaises(image_path) THEN shapes
    ELSE IF has_content
    THEN AddPicture(shapes, image_path, Inches(7000), Inches(1500), Inches(5500), -1)
    ELSE AddPicture(shapes, image_path, Inches(1500), Inches(1500), Inches(10000), -1)

\* _add_content_slide, the placeholder-seeking composer that
\* generate_presentation never calls; the slides it is handed here hold no
\* title placeholder, so the first shape with a text frame is the content
\* placeholder
AddContentSlide(slide, content, image_path, bullets) ==
    LET has_image == image_path # "" /\ os_path_exists(image_path)
        framed == {k \in 1..Len(slide.shapes) : slide.shapes[k].has_text_frame}
        s1 == IF framed # {} THEN slide.shapes
              ELSE AddTextbox(slide.shapes, Inches(500), Inches(1200),
                              IF has_image THEN Inches(4500) ELSE Inches(9000),
                              Inches(4000))
        at == IF framed # {} THEN Min(framed) ELSE Len(s1)
        frame == IF bullets # <<>>
                 THEN BulletListParagraphs(Truncate(bullets, MAX_BULLETS_STRUCTURED))
                 ELSE LegacyFlatFrame(content)
        s2 == [s1 EXCEPT ![at].paragraphs = frame]
        s3 == IF has_image
              THEN AddImage(s2, image_path, content # <<>> \/ bullets # <<>>)
              ELSE s2
    IN  [slide EXCEPT !.shapes = s3]

\* _add_speaker_notes
AddSpeakerNotes(slide, notes) == [slide EXCEPT !.notes = notes]

-----------------------------------------------------------------------------
(* Media Attacher and Timing Graph Injector.                               *)

SupportedFormats == {".mp3", ".wav", ".m4a", ".wma"}

\* _get_audio_mime_type
GetAudioMimeType(ext) ==
    CASE ext = ".mp3" -> "audio/mpeg"
      [] ext = ".wav" -> "audio/wav"
      [] ext = ".m4a" -> "audio/mp4"
      [] ext = ".wma" -> "audio/x-ms-wma"
      [] OTHER -> "audio/mpeg"

\* the test of line 669 left out: any file whose insertion does not raise
MediaInsertedAnyFormat(audio_path) == ~ InsertRaises(audio_path)

\* lines 664-685 reach past add_movie: the extension is supported and the
\* insertion does not raise
MediaInserted(audio_path) ==
    /\ Lower(SplitExt(audio_path)) \in SupportedFormats
    /\ ~ InsertRaises(audio_path)

\* the timing subtree add_movie makes for a slide that has none: a root
\* node with one video node targeting the new shape and no play command
VideoTimingElem(shape_id) ==
    [node_type |-> "tmRoot", cmd_type |-> "", cmd |-> "", spid |-> -1,
     video |-> <<shape_id>>]

\* add_movie's timing entry for the shape it appended: a video node in the
\* child list of the slide's first timing subtree, which is made if the
\* slide has none
AddVideoTiming(timing, shape_id) ==
    IF timing = <<>> THEN <<VideoTimingElem(shape_id)>>
    ELSE [timing EXCEPT ![1].video = Append(@, shape_id)]

\* the media shape placed on the canvas, at (0.6in, 0.6in)
AttachMediaOnCanvas(slide, audio_path) ==
    IF MediaInserted(audio_path)
    THEN [slide EXCEPT
            !.shapes =
                AddMovie(@, audio_path, Inches(600), Inches(600), Inches(400), Inches(400),
                         GetAudioMimeType(Lower(SplitExt(audio_path)))),
            !.timing = AddVideoTiming(@, NextShapeId(slide.shapes))]
    ELSE slide

\* _add_audio_with_autoplay up to the media shape (lines 664-687)
AttachMedia(slide, audio_path) ==
    IF MediaInserted(audio_path)
    THEN [slide EXCEPT
            !.shapes =
                AddMovie(@, audio_path, Inches(-600), Inches(-600), Inches(400), Inches(400),
                         GetAudioMimeType(Lower(SplitExt(audio_path)))),
            !.timing = AddVideoTiming(@, NextShapeId(slide.shapes))]
    ELSE slide

\* the timing subtree with the target identifier written into the markup
TimingElemFixedTarget(shape_id) ==
    [node_type |-> "tmRoot", cmd_type |-> "call", cmd |-> "playFrom(0.0)",
     spid |-> 2, video |-> <<>>]

\* the timing subtree of lines 716-768: its play command and target; it
\* holds no video node
TimingElem(shape_id) ==
    [node_type |-> "tmRoot", cmd_type |-> "call", cmd |-> "playFrom(0.0)",
     spid |-> shape_id, video |-> <<>>]

\* the new subtree appended, the existing one kept
SetAudioAutoplayAdditive(slide, shape_id) ==
    [slide EXCEPT !.timing = Append(@, TimingElem(shape_id))]

\* _set_audio_autoplay: the first p:timing child, if any, is removed and
\* the new subtree appended
SetAudioAutoplay(slide, shape_id) ==
    [slide EXCEPT !.timing =
        Append(IF @ # <<>> THEN Tail(@) ELSE @, TimingElem(shape_id))]

\* _add_audio_with_autoplay
AddAudioWithAutoplay(slide, audio_path) ==
    IF MediaInserted(audio_path)
    THEN LET with_movie == AttachMedia(slide, audio_path)
             movie == with_movie.shapes[Len(with_movie.shapes)]
         IN  SetAudioAutoplay(with_movie, movie.shape_id)
    ELSE slide

-----------------------------------------------------------------------------
(* The generation call: generate_presentation.                             *)

Layout(placeholders) == [placeholders |-> placeholders]

\* the layout catalogs a generation call is run on
Catalogs ==
    {<<>>,
     <<Layout(<<"title", "dt">>)>>,
     <<Layout(<<"title", "body">>), Layout(<<>>)>>}

\* a slide the style source already holds
InheritedSlide ==
    NewSlide(1, 0, <<Shape("placeholder", 2, TRUE, 0, 0, 0, 0,
                           <<EmptyParagraph>>, "", "")>>)

\* the package at theme.pptx: n slides, 16:9
TemplatePackage(catalog, n) ==
    [slides |-> [k \in 1..n |-> InheritedSlide], slide_layouts |-> catalog,
     slide_width |-> 12192000, slide_height |-> 6858000]

\* the package Presentation() starts from: no slide, 4:3
DefaultPackage(catalog) ==
    [slides |-> <<>>, slide_layouts |-> catalog,
     slide_width |-> 9144000, slide_height |-> 6858000]

TemplatePaths == {"blank", "missing.pptx", "theme.pptx"}

\* the test of line 77
UsesTemplate(path) == path # "" /\ os_path_exists(path) /\ path # "blank"

\* a slide content record; idx = -1 leaves the slideIndex key out
MakeRecord(type, idx, audio) ==
    LET fields ==
            [slideType |-> type,
             title |-> IF type = "title" /\ audio = "" THEN "Lesson 1"
                       ELSE type \o " " \o audio,
             content |-> IF type = "title" THEN <<"Intro course">>
                         ELSE IF type = "agenda"
                         THEN <<"one", "two", "three", "four", "five">>
                         ELSE <<"one", "two", "three">>,
             bullets |-> IF type = "content"
                         THEN <<[emoji |-> "", point |-> "A", description |-> "d1"],
                                [emoji |-> "", point |-> "", description |-> "d2"]>>
                         ELSE <<>>,
             imagePath |-> "", audioPath |-> audio,
             speakerNote |-> IF type = "agenda" THEN "" ELSE "note"]
    IN  IF idx = -1 THEN fields ELSE fields @@ [slideIndex |-> idx]

\* the record with an image path
WithImage(slide_data, image_path) == [slide_data EXCEPT !.imagePath = image_path]

\* the records a generation request is made of: each slide type ('title',
\* 'agenda', 'objectives', 'content'), with and without an explicit slide
\* index; with no audio, a valid audio file, a
\* missing one, an unsupported format and a file whose insertion raises;
\* with no image, a valid image, a missing one and one whose insertion
\* raises
RequestRecords ==
    {MakeRecord("title", -1, ""),
     [MakeRecord("agenda", 3, "locked.m4a") EXCEPT !.slideType = "objectives"],
     MakeRecord("agenda", 1, ""),
     MakeRecord("content", -1, "voice.mp3"),
     MakeRecord("content", 2, ""),
     WithImage(MakeRecord("content", 2, "voice.mp3"), "pic.png"),
     WithImage(MakeRecord("content", 2, "gone.mp3"), "gone.png"),
     WithImage(MakeRecord("content", 2, "voice.ogg"), "broken.png")}

\* the background paths of a request (title, content): a readable title
\* background and no content background; an unreadable one and a readable
\* one; a missing one and an unreadable one
BackgroundPaths ==
    {<<"bg_title.png", "">>, <<"broken.png", "bg_content.png">>,
     <<"gone.png", "broken.png">>}

RECURSIVE SeqsUpTo(_, _)
\* the sequences over S of length at most n
SeqsUpTo(S, n) ==
    IF n = 0 THEN {<<>>}
    ELSE LET shorter == SeqsUpTo(S, n - 1)
         IN  shorter \cup {Append(q, x) : q \in {r \in shorter : Len(r) = n - 1}, x \in S}

\* the names tempfile.mktemp may return
TempNames == {"tmp_a.pptx", "tmp_b.pptx", "tmp_c.pptx"}

NoDocument == [slides |-> <<>>, slide_layouts |-> <<>>,
               slide_width |-> 0, slide_height |-> 0]

NoCall == [op |-> "none"]

\* the state a generation call starts in
Init ==
    /\ pc = "load"
    /\ template_path \in TemplatePaths
    /\ slides \in SeqsUpTo(RequestRecords, MaxRecords)
    /\ \E bg \in BackgroundPaths :
          /\ title_bg_path = bg[1]
          /\ content_bg_path = bg[2]
    /\ \E catalog \in Catalogs :
          IF UsesTemplate(template_path)
          THEN \E n \in 0..MaxSourceSlides : source = TemplatePackage(catalog, n)
          ELSE source = DefaultPackage(catalog)
    /\ prs = NoDocument
    /\ i = 0
    /\ output_path = ""
    /\ saved = NoDocument
    /\ subject = NoDocument
    /\ call = NoCall

\* the loop head leaving the loop after the first record
LoopHeadFirstRecordOnly(k) == IF k < Len(slides) /\ k = 0 THEN "resolve" ELSE "mktemp"

\* the position after the for loop's head is evaluated with index k
LoopHead(k) == IF k < Len(slides) THEN "resolve" ELSE "mktemp"

\* the position after the while loop's head (line 86) is evaluated
ClearHeadStopsAtOne(doc) == IF Len(doc.slides) > 1 THEN "clear" ELSE LoopHead(0)

ClearHead(doc) == IF Len(doc.slides) > 0 THEN "clear" ELSE LoopHead(0)

\* lines 76-83 without the assignments of lines 82-83: the blank document
\* keeps the canvas Presentation() gives it
LoadDefaultCanvas ==
    /\ pc = "load"
    /\ prs' = source
    /\ pc' = ClearHead(prs')
    /\ UNCHANGED <<template_path, slides, title_bg_path, content_bg_path, source,
                   i, output_path, saved, subject, call>>

\* lines 76-83: the document is opened from the style source or created
\* blank with the 10in x 5.625in canvas
Load ==
    /\ pc = "load"
    /\ prs' = IF UsesTemplate(template_path) THEN source
              ELSE [source EXCEPT !.slide_width = Inches(10000),
                                  !.slide_height = Inches(5625)]
    /\ pc' = ClearHead(prs')
    /\ UNCHANGED <<template_path, slides, title_bg_path, content_bg_path, source,
                   i, output_path, saved, subject, call>>

\* lines 86-89: one pass of the loop that drops the first inherited slide
DropSlide ==
    /\ pc = "clear"
    /\ prs' = [prs EXCEPT !.slides = Tail(@)]
    /\ pc' = ClearHead(prs')
    /\ UNCHANGED <<template_path, slides, title_bg_path, content_bg_path, source,
                   i, output_path, saved, subject, call>>

\* the slide being composed: the last one added
Current == Len(prs.slides)

\* lines 96-102 with the exception of _find_blank_layout caught and the
\* record skipped
ResolveLayoutSkipsRecord ==
    /\ pc = "resolve"
    /\ LET blank_layout == FindBlankLayout(prs.slide_layouts)
       IN  IF blank_layout = 0
           THEN /\ pc' = LoopHead(i + 1)
                /\ i' = i + 1
                /\ prs' = prs
           ELSE /\ pc' = "sanitize"
                /\ i' = i
                /\ prs' = AddSlide(prs, blank_layout, i + 1)
    /\ UNCHANGED <<template_path, slides, title_bg_path, content_bg_path, source,
                   output_path, saved, subject, call>>

\* lines 96-102: the layout is resolved and the slide added; on an empty
\* catalog _find_blank_layout raises and the call ends with the exception
ResolveLayout ==
    /\ pc = "resolve"
    /\ LET blank_layout == FindBlankLayout(prs.slide_layouts)
       IN  IF blank_layout = 0
           THEN /\ pc' = "raised"
                /\ prs' = prs
           ELSE /\ pc' = "sanitize"
                /\ prs' = AddSlide(prs, blank_layout, i + 1)
    /\ UNCHANGED <<template_path, slides, title_bg_path, content_bg_path, source,
                   i, output_path, saved, subject, call>>

\* line 105
Sanitize ==
    /\ pc = "sanitize"
    /\ prs' = [prs EXCEPT !.slides[Current] = ClearPlaceholders(@)]
    /\ pc' = "compose"
    /\ UNCHANGED <<template_path, slides, title_bg_path, content_bg_path, source,
                   i, output_path, saved, subject, call>>

\* the dispatch of lines 107-112 on the type tag alone
ComposerByTypeOnly(slide_data, k) ==
    LET slide_type == Get(slide_data, "slideType", "content")
    IN  IF slide_type = "title" THEN "title"
        ELSE IF slide_type \in {"agenda", "objectives"} THEN "agenda"
        ELSE "content"

\* the composer lines 107-112 pick for the record at enumerate index k
Composer(slide_data, k) ==
    LET slide_type  == Get(slide_data, "slideType", "content")
        slide_index == Get(slide_data, "slideIndex", k)
    IN  IF slide_type = "title" \/ slide_index = 0 THEN "title"
        ELSE IF slide_type \in {"agenda", "objectives"} \/ slide_index = 1 THEN "agenda"
        ELSE "content"

\* lines 107-117 on one slide: the composer, then the speaker notes
ComposeSlide(slide, slide_data, k) ==
    LET composed ==
            CASE Composer(slide_data, k) = "title" ->
                     AddTitleSlide(slide, slide_data, title_bg_path)
              [] Composer(slide_data, k) = "agenda" ->
                     AddAgendaSlide(slide, slide_data, content_bg_path)
              [] OTHER -> AddContentSlideV2(slide, slide_data, content_bg_path)
        speaker_note == Get(slide_data, "speakerNote", "")
    IN  IF speaker_note # "" THEN AddSpeakerNotes(composed, speaker_note)
        ELSE composed

Compose ==
    /\ pc = "compose"
    /\ prs' = [prs EXCEPT !.slides[Current] = ComposeSlide(@, slides[i + 1], i)]
    /\ pc' = "audio"
    /\ UNCHANGED <<template_path, slides, title_bg_path, content_bg_path, source,
                   i, output_path, saved, subject, call>>

\* the test of line 121
HasAudio(slide_data) ==
    LET audio_path == Get(slide_data, "audioPath", "")
    IN  audio_path # "" /\ os_path_exists(audio_path)

\* lines 120-122 without the try block of _add_audio_with_autoplay: an
\* insertion that raises ends the call
AttachAudioUncaught ==
    /\ pc = "audio"
    /\ LET audio_path == Get(slides[i + 1], "audioPath", "")
       IN  IF HasAudio(slides[i + 1]) /\ InsertRaises(audio_path)
           THEN /\ prs' = prs
                /\ pc' = "raised"
                /\ i' = i
           ELSE IF HasAudio(slides[i + 1]) /\ MediaInserted(audio_path)
           THEN /\ prs' = [prs EXCEPT !.slides[Current] = AttachMedia(@, audio_path)]
                /\ pc' = "timing"
                /\ i' = i
           ELSE /\ prs' = prs
                /\ pc' = LoopHead(i + 1)
                /\ i' = i + 1
    /\ UNCHANGED <<template_path, slides, title_bg_path, content_bg_path, source,
                   output_path, saved, subject, call>>

\* lines 120-122 and 664-687: the media shape is inserted, or the record
\* ends without audio
AttachAudio ==
    /\ pc = "audio"
    /\ LET audio_path == Get(slides[i + 1], "audioPath", "")
       IN  IF HasAudio(slides[i + 1]) /\ MediaInserted(audio_path)
           THEN /\ prs' = [prs EXCEPT !.slides[Current] = AttachMedia(@, audio_path)]
                /\ pc' = "timing"
                /\ i' = i
           ELSE /\ prs' = prs
                /\ pc' = LoopHead(i + 1)
                /\ i' = i + 1
    /\ UNCHANGED <<template_path, slides, title_bg_path, content_bg_path, source,
                   output_path, saved, subject, call>>

\* line 690 with the first shape of the slide passed as the movie shape
InjectTimingFirstShape ==
    /\ pc = "timing"
    /\ LET slide == prs.slides[Current]
           movie == slide.shapes[1]
       IN  prs' = [prs EXCEPT !.slides[Current] = SetAudioAutoplay(@, movie.shape_id)]
    /\ pc' = LoopHead(i + 1)
    /\ i' = i + 1
    /\ UNCHANGED <<template_path, slides, title_bg_path, content_bg_path, source,
                   output_path, saved, subject, call>>

\* line 690: the timing subtree is installed for the movie just inserted
InjectTiming ==
    /\ pc = "timing"
    /\ LET slide == prs.slides[Current]
           movie == slide.shapes[Len(slide.shapes)]
       IN  prs' = [prs EXCEPT !.slides[Current] = SetAudioAutoplay(@, movie.shape_id)]
    /\ pc' = LoopHead(i + 1)
    /\ i' = i + 1
    /\ UNCHANGED <<template_path, slides, title_bg_path, content_bg_path, source,
                   output_path, saved, subject, call>>

\* line 125
Mktemp ==
    /\ pc = "mktemp"
    /\ output_path' \in TempNames
    /\ pc' = "save"
    /\ UNCHANGED <<template_path, slides, title_bg_path, content_bg_path, source,
                   prs, i, saved, subject, call>>

\* lines 126-128 with the assignments of lines 82-83 placed before
\* prs.save: the canvas is set again when the document is written
SaveSetsCanvas ==
    /\ pc = "save"
    /\ saved' = [prs EXCEPT !.slide_width = Inches(10000),
                            !.slide_height = Inches(5625)]
    /\ pc' = "done"
    /\ UNCHANGED <<template_path, slides, title_bg_path, content_bg_path, source,
                   prs, i, output_path, subject, call>>

\* lines 126-128
Save ==
    /\ pc = "save"
    /\ saved' = prs
    /\ pc' = "done"
    /\ UNCHANGED <<template_path, slides, title_bg_path, content_bg_path, source,
                   prs, i, output_path, subject, call>>

Next ==
    \/ Load
    \/ DropSlide
    \/ ResolveLayout
    \/ Sanitize
    \/ Compose
    \/ AttachAudio
    \/ InjectTiming
    \/ Mktemp
    \/ Save

Spec == Init /\ [][Next]_vars

-----------------------------------------------------------------------------
(* Unit harnesses: one operation applied to inputs drawn from bounded      *)
(* sets.  No generation call runs in them.                                 *)

NoGeneration ==
    /\ pc = "idle"
    /\ template_path = "blank"
    /\ slides = <<>>
    /\ title_bg_path = ""
    /\ content_bg_path = ""
    /\ source = NoDocument
    /\ prs = NoDocument
    /\ i = 0
    /\ output_path = ""
    /\ saved = NoDocument

\* --- Layout Resolver ---

LayoutKinds == {Layout(<<>>), Layout(<<"title">>), Layout(<<"title", "body">>)}

InitLayout ==
    /\ NoGeneration
    /\ subject \in SeqsUpTo(LayoutKinds, BlankIndex + 1 + MaxExtraLayouts)
    /\ call = NoCall

FindBlankLayoutCall ==
    /\ call.op = "none"
    /\ call' = [op |-> "_find_blank_layout", returned |-> FindBlankLayout(subject)]
    /\ UNCHANGED <<genVars, subject>>

NextLayout == FindBlankLayoutCall

SpecLayout == InitLayout /\ [][NextLayout]_vars

\* --- Placeholder Sanitizer ---

\* a shape found on a slide before sanitization: a placeholder, a text box
\* or a picture, with the accessor that raises on inspection
FoundShape(kind, text, inspect, id) ==
    [Shape(kind, id, kind = "placeholder", 0, 0, Inches(1000), Inches(1000),
           IF kind = "picture" THEN <<>> ELSE <<[EmptyParagraph EXCEPT !.text = text]>>,
           "", "")
     EXCEPT !.inspect = inspect]

FoundKinds ==
    {<<"placeholder", t, r>> : t \in {"", "Click to add title"},
                               r \in {"none", "text_frame"}}
    \cup {<<"textbox", t, r>> :
            t \in {"Lesson 1", "Click to add text", "MASTER STYLE"},
            r \in {"none", "placeholder_format", "text_frame"}}
    \cup {<<"picture", "", r>> : r \in {"none", "placeholder_format"}}

FoundSlide(kinds) ==
    NewSlide(1, 1, [k \in 1..Len(kinds) |->
                      FoundShape(kinds[k][1], kinds[k][2], kinds[k][3], k + 1)])

InitSanitizer ==
    /\ NoGeneration
    /\ \E kinds \in SeqsUpTo(FoundKinds, MaxShapes) : subject = FoundSlide(kinds)
    /\ call = NoCall

ClearPlaceholdersCall ==
    /\ call.op = "none"
    /\ subject' = ClearPlaceholders(subject)
    /\ call' = [op |-> "_clear_placeholders", before |-> subject]
    /\ UNCHANGED genVars

NextSanitizer == ClearPlaceholdersCall

SpecSanitizer == InitSanitizer /\ [][NextSanitizer]_vars

\* --- Slide Composers ---

\* the k-th item of a flat content list; every third one already starts
\* with the bullet glyph
Item(k) ==
    (IF k % 3 = 2 THEN "* item " ELSE "item ") \o SubSeq("0123456789", k + 1, k + 1)

BulletKinds ==
    {[emoji |-> ":)", point |-> "A", description |-> "d1"],
     [emoji |-> "", point |-> "B", description |-> ""],
     [emoji |-> "", point |-> "", description |-> "d2"],
     [emoji |-> ":)", point |-> "", description |-> ""]}

ComposeRecords ==
    {[slideType |-> "content", title |-> "Topic",
      content |-> [k \in 1..n |-> Item(k)], bullets |-> b, imagePath |-> img] :
        n \in 0..MaxItems, b \in SeqsUpTo(BulletKinds, MaxBullets),
        img \in {"", "pic.png", "gone.png", "broken.png"}}

\* records as the Title composer reads them: with and without a title, with
\* no content string, an empty first one or a non-empty first one
TitleRecords ==
    {[slideType |-> "title", title |-> t, content |-> c, bullets |-> b,
      imagePath |-> img] :
        t \in {"Lesson 1", ""},
        c \in {<<>>, <<"">>, <<"Intro course">>, <<"", "later">>,
               <<"Intro course", "later">>},
        b \in {<<>>, <<[emoji |-> "", point |-> "A", description |-> "d1"]>>},
        img \in {"", "pic.png"}}

InitCompose ==
    /\ NoGeneration
    /\ subject = NewSlide(1, 1, <<>>)
    /\ \E rec \in ComposeRecords \cup TitleRecords,
          bg \in {"", "bg_content.png", "broken.png", "gone.png"} :
          call = [op |-> "none", slide_data |-> rec, bg_path |-> bg]

AddTitleSlideCall ==
    /\ call.op = "none"
    /\ subject' = AddTitleSlide(subject, call.slide_data, call.bg_path)
    /\ call' = [call EXCEPT !.op = "_add_title_slide"]
    /\ UNCHANGED genVars

AddAgendaSlideCall ==
    /\ call.op = "none"
    /\ subject' = AddAgendaSlide(subject, call.slide_data, call.bg_path)
    /\ call' = [call EXCEPT !.op = "_add_agenda_slide"]
    /\ UNCHANGED genVars

AddContentSlideV2Call ==
    /\ call.op = "none"
    /\ subject' = AddContentSlideV2(subject, call.slide_data, call.bg_path)
    /\ call' = [call EXCEPT !.op = "_add_content_slide_v2"]
    /\ UNCHANGED genVars

AddContentSlideCall ==
    /\ call.op = "none"
    /\ subject' = AddContentSlide(subject, call.slide_data.content,
                                  call.slide_data.imagePath, call.slide_data.bullets)
    /\ call' = [call EXCEPT !.op = "_add_content_slide"]
    /\ UNCHANGED genVars

NextCompose ==
    \/ AddTitleSlideCall
    \/ AddAgendaSlideCall
    \/ AddContentSlideV2Call
    \/ AddContentSlideCall

SpecCompose == InitCompose /\ [][NextCompose]_vars

\* --- Media Attacher and Timing Graph Injector ---

AudioPaths ==
    {"voice.mp3", "talk.WAV", "voice.ogg", "locked.m4a", "memo.m4a", "old.wma",
     "noext"}

\* the slide starts with the timing subtree of a template or none, and with
\* a title text box
InitTiming ==
    /\ NoGeneration
    /\ \E inherited \in BOOLEAN, titled \in BOOLEAN :
          subject = [NewSlide(1, 1, IF titled THEN AddTopTitle(<<>>, "Topic") ELSE <<>>)
                     EXCEPT !.timing = IF inherited THEN <<TimingElem(9)>> ELSE <<>>]
    /\ call = [op |-> "none", shape_id |-> 0, had_timing |-> FALSE, runs |-> 0,
               count |-> 0, audio_path |-> "", before |-> subject]

\* _add_audio_with_autoplay on any audio file; call records the path, the
\* slide before the call and the injector run the call makes when the media
\* shape is inserted: the identifier passed, whether the slide carried a
\* timing subtree before, the number of runs
AddAudioWithAutoplayCall ==
    /\ call.count < MaxCalls
    /\ \E audio_path \in AudioPaths :
          /\ subject' = AddAudioWithAutoplay(subject, audio_path)
          /\ call' = IF MediaInserted(audio_path)
                     THEN [op |-> "_add_audio_with_autoplay",
                           shape_id |-> NextShapeId(subject.shapes),
                           had_timing |-> subject.timing # <<>>,
                           runs |-> call.runs + 1, count |-> call.count + 1,
                           audio_path |-> audio_path, before |-> subject]
                     ELSE [call EXCEPT !.op = "_add_audio_with_autoplay",
                                       !.count = @ + 1,
                                       !.audio_path = audio_path,
                                       !.before = subject]
    /\ UNCHANGED genVars

\* _set_audio_autoplay run again, on any media shape of the slide
SetAudioAutoplayCall ==
    /\ call.count < MaxCalls
    /\ \E k \in MediaShapes(subject) :
          /\ subject' = SetAudioAutoplay(subject, subject.shapes[k].shape_id)
          /\ call' = [op |-> "_set_audio_autoplay",
                      shape_id |-> subject.shapes[k].shape_id,
                      had_timing |-> subject.timing # <<>>,
                      runs |-> call.runs + 1, count |-> call.count + 1,
                      audio_path |-> "", before |-> subject]
    /\ UNCHANGED genVars

NextTiming ==
    \/ AddAudioWithAutoplayCall
    \/ SetAudioAutoplayCall

SpecTiming == InitTiming /\ [][NextTiming]_vars

\* --- The service endpoints (main.py) over the temporary storage ---

\* subject is the temporary directory: for each name, the request whose
\* artifact the file holds, 0 when no such file exists.  call.requests
\* holds, per request, the endpoint (mode), its position, the path
\* generate_presentation allocated, whether reading the artifact back
\* raises, the response status (0: none yet) and two records of what
\* happened: the request whose file its save replaced, and the request whose
\* artifact it encoded (0: none).
Requests == 1..MaxRequests

NewRequest(mode, read_raises) ==
    [mode |-> mode, pc |-> "start", output_path |-> "", read_raises |-> read_raises,
     status |-> 0, replaced |-> 0, encoded |-> 0]

InitService ==
    /\ NoGeneration
    /\ subject = [name \in TempNames |-> 0]
    /\ \E modes \in [Requests -> {"generate", "generate-buffer"}],
          faults \in [Requests -> BOOLEAN] :
          call = [op |-> "service",
                  requests |-> [r \in Requests |-> NewRequest(modes[r], faults[r])]]

\* generate_presentation raises before it allocates a path (a template
\* without layouts): both endpoints answer 500
GenerateRaises(r) ==
    /\ call.requests[r].pc = "start"
    /\ call' = [call EXCEPT !.requests[r].pc = "responded",
                            !.requests[r].status = 500]
    /\ UNCHANGED <<genVars, subject>>

\* tempfile.mktemp (pptx_service.py line 125): a name no file bears at this
\* moment; nothing is created or reserved
MktempCall(r) ==
    /\ call.requests[r].pc = "start"
    /\ \E name \in TempNames :
          /\ subject[name] = 0
          /\ call' = [call EXCEPT !.requests[r].pc = "allocated",
                                  !.requests[r].output_path = name]
    /\ UNCHANGED <<genVars, subject>>

\* prs.save(output_path) (line 126): the file is created, or replaced
SaveCall(r) ==
    /\ call.requests[r].pc = "allocated"
    /\ subject' = [subject EXCEPT ![call.requests[r].output_path] = r]
    /\ call' = [call EXCEPT !.requests[r].pc = "saved",
                            !.requests[r].replaced =
                                subject[call.requests[r].output_path]]
    /\ UNCHANGED genVars

\* generate_pptx (main.py lines 82-87): the FileResponse is returned, the
\* artifact stays
FileResponse(r) ==
    /\ call.requests[r].pc = "saved"
    /\ call.requests[r].mode = "generate"
    /\ call' = [call EXCEPT !.requests[r].pc = "responded",
                            !.requests[r].status = 200]
    /\ UNCHANGED <<genVars, subject>>

\* generate_pptx_buffer (main.py lines 112-113): the artifact is read and
\* encoded; a missing file or a failing read raises, and the except branch
\* of lines 122-123 answers 500
EncodeBuffer(r) ==
    /\ call.requests[r].pc = "saved"
    /\ call.requests[r].mode = "generate-buffer"
    /\ call' = IF subject[call.requests[r].output_path] = 0
                  \/ call.requests[r].read_raises
               THEN [call EXCEPT !.requests[r].pc = "responded",
                                 !.requests[r].status = 500]
               ELSE [call EXCEPT !.requests[r].pc = "encoded",
                                 !.requests[r].encoded =
                                     subject[call.requests[r].output_path]]
    /\ UNCHANGED <<genVars, subject>>

\* generate_pptx_buffer (main.py lines 116-121): os.unlink and the response;
\* unlink raises on a missing file and the except branch answers 500
UnlinkArtifact(r) ==
    /\ call.requests[r].pc = "encoded"
    /\ IF subject[call.requests[r].output_path] = 0
       THEN /\ subject' = subject
            /\ call' = [call EXCEPT !.requests[r].pc = "responded",
                                    !.requests[r].status = 500]
       ELSE /\ subject' = [subject EXCEPT ![call.requests[r].output_path] = 0]
            /\ call' = [call EXCEPT !.requests[r].pc = "responded",
                                    !.requests[r].status = 200]
    /\ UNCHANGED genVars

NextService ==
    \E r \in Requests :
        \/ GenerateRaises(r)
        \/ MktempCall(r)
        \/ SaveCall(r)
        \/ FileResponse(r)
        \/ EncodeBuffer(r)
        \/ UnlinkArtifact(r)

SpecService == InitService /\ [][NextService]_vars

-----------------------------------------------------------------------------
(* Properties of the generation call.                                      *)

\* the positions of the call after the inherited slides have been cleared
Composing ==
    pc \in {"resolve", "sanitize", "compose", "audio", "timing", "mktemp", "save",
            "done", "raised"}

\* the text of the first text box of a slide
TitleText(slide) ==
    LET boxes == {k \in 1..Len(slide.shapes) : slide.shapes[k].kind = "textbox"}
    IN  IF boxes = {} THEN "" ELSE slide.shapes[Min(boxes)].paragraphs[1].text

\* C1: a generation call that returns has saved a document with as many
\* slides as there are input records, whether the document was opened from a
\* template holding any number of slides or created blank.
C1_SlideCountEqualsRecords ==
    pc = "done" => Len(saved.slides) = Len(slides)

C1_Witness ==
    /\ pc = "done"
    /\ UsesTemplate(template_path)
    /\ Len(source.slides) >= 1
    /\ Len(slides) >= 2
    /\ Len(saved.slides) = Len(slides)

\* C2: every slide inherited from the style source is gone before the first
\* slide is composed, and the saved document holds exactly the composed
\* slides, slide k being the one composed from record k.
C2_OnlyComposedSlidesInOrder ==
    /\ Composing =>
          \A k \in 1..Len(prs.slides) : prs.slides[k].rec = k
    /\ pc = "done" =>
          /\ Len(saved.slides) = Len(slides)
          /\ \A k \in 1..Len(saved.slides) :
                /\ saved.slides[k].rec = k
                /\ TitleText(saved.slides[k]) = slides[k].title

C2_Witness ==
    /\ pc = "done"
    /\ UsesTemplate(template_path)
    /\ Len(source.slides) = MaxSourceSlides
    /\ Len(saved.slides) >= 2
    /\ slides[1].title # slides[2].title
    /\ \A k \in 1..Len(saved.slides) : saved.slides[k].rec = k

\* C9: every media shape of every document, in memory or saved, lies off the
\* canvas: its left and its top are both strictly negative.
C9_MediaOffCanvas ==
    \A doc \in {prs, saved} :
        \A k \in 1..Len(doc.slides) :
            \A m \in MediaShapes(doc.slides[k]) :
                /\ doc.slides[k].shapes[m].left < 0
                /\ doc.slides[k].shapes[m].top < 0

C9_Witness ==
    /\ pc = "done"
    /\ \E k \in 1..Len(saved.slides) :
          \E m \in MediaShapes(saved.slides[k]) :
              /\ saved.slides[k].shapes[m].left = -548640
              /\ saved.slides[k].shapes[m].top = -548640

\* the record's audio path names a valid audio file: it exists, its
\* extension is a supported format and its insertion succeeds
ValidAudio(slide_data) ==
    /\ HasAudio(slide_data)
    /\ Lower(SplitExt(slide_data.audioPath)) \in SupportedFormats
    /\ ~ InsertRaises(slide_data.audioPath)

\* the slide holds exactly one media shape, off canvas, and exactly one
\* timing subtree, whose play command targets that shape
OneAutoplayMedia(slide) ==
    /\ Cardinality(MediaShapes(slide)) = 1
    /\ \A m \in MediaShapes(slide) :
          /\ slide.shapes[m].left < 0
          /\ slide.shapes[m].top < 0
          /\ Len(slide.timing) = 1
          /\ slide.timing[1].cmd = "playFrom(0.0)"
          /\ slide.timing[1].spid = slide.shapes[m].shape_id

-----------------------------------------------------------------------------
(* Properties of the Placeholder Sanitizer.                                *)

Flagged(slide) ==
    {k \in 1..Len(slide.shapes) : slide.shapes[k].is_placeholder}

-----------------------------------------------------------------------------
(* Properties of the Layout Resolver.                                      *)

\* the placeholder count of the k-th layout of the catalog under test
CountAt(k) == Len(subject[k].placeholders)

C4_WitnessBlankIndex ==
    /\ call.op = "_find_blank_layout"
    /\ call.returned = 7
    /\ CountAt(1) = 0

-----------------------------------------------------------------------------
(* Properties of the Slide Composers.                                      *)

\* the text boxes of the slide under test at a given left edge, below the
\* title (top 1.2in)
BoxesAt(left) ==
    {k \in 1..Len(subject.shapes) :
        /\ subject.shapes[k].kind = "textbox"
        /\ subject.shapes[k].left = left
        /\ subject.shapes[k].top = 1097280}

\* the paragraphs added to a frame after the empty paragraph clear() leaves
Emitted(shape) == Tail(shape.paragraphs)

\* the texts a column received, in order
ColumnItems(shape) == [k \in 1..Len(Emitted(shape)) |-> Emitted(shape)[k].text]

\* ceil(n / 2)
CeilHalf(n) == CHOOSE c \in 0..n : 2 * c >= n /\ 2 * c < n + 2

\* C5: an agenda slide built from n >= 1 items has a left column holding
\* the first ceil(n/2) items and a right column holding the others, in input
\* order; the two lengths add up to n and the left one exceeds the right one
\* by 0 or 1.
C5_AgendaSplit ==
    (call.op = "_add_agenda_slide" /\ AgendaItems(call.slide_data) # <<>>) =>
        LET items == AgendaItems(call.slide_data)
            n == Len(items)
        IN  /\ Cardinality(BoxesAt(457200)) = 1
            /\ Cardinality(BoxesAt(4572000)) = 1
            /\ \A l \in BoxesAt(457200) : \A r \in BoxesAt(4572000) :
                  LET left  == ColumnItems(subject.shapes[l])
                      right == ColumnItems(subject.shapes[r])
                  IN  /\ l < r
                      /\ Len(left) = CeilHalf(n)
                      /\ Len(left) + Len(right) = n
                      /\ Len(left) - Len(right) \in {0, 1}
                      /\ left \o right = items

C5_Witness ==
    /\ call.op = "_add_agenda_slide"
    /\ call.slide_data.bullets = <<>>
    /\ Len(call.slide_data.content) = 5
    /\ \E l \in BoxesAt(457200) : \E r \in BoxesAt(4572000) :
          /\ Len(ColumnItems(subject.shapes[l])) = 3
          /\ Len(ColumnItems(subject.shapes[r])) = 2
          /\ ColumnItems(subject.shapes[r])[1] = call.slide_data.content[4]

\* the number of paragraphs the contract gives a bullet
BulletCount(bullet) ==
    IF bullet.point = "" THEN 1 ELSE IF bullet.description # "" THEN 2 ELSE 1

RECURSIVE CountBefore(_, _)
\* the number of paragraphs the contract gives the bullets before the k-th
CountBefore(bullets, k) ==
    IF k <= 1 THEN 0
    ELSE CountBefore(bullets, k - 1) + BulletCount(bullets[k - 1])

\* C6: in _add_content_slide_v2 a bullet with an empty point emits one
\* paragraph, its description at 20pt; a bullet with a point emits a bold
\* 22pt paragraph holding the point and, exactly when its description is
\* not empty, a second paragraph holding the description at 18pt and
\* indentation level 1.  The paragraphs of a bullet list are those of its
\* bullets, in bullet order.
C6_BulletParagraphs ==
    (call.op = "_add_content_slide_v2" /\ call.slide_data.bullets # <<>>) =>
        LET bullets == call.slide_data.bullets
        IN  /\ Cardinality(BoxesAt(457200)) = 1
            /\ \A c \in BoxesAt(457200) :
                  LET out == Emitted(subject.shapes[c])
                  IN  /\ Len(out) = CountBefore(bullets, Len(bullets) + 1)
                      /\ \A k \in 1..Len(bullets) :
                            LET b  == bullets[k]
                                at == CountBefore(bullets, k) + 1
                            IN  IF b.point = ""
                                THEN /\ out[at].text = b.description
                                     /\ out[at].font_size = 254000
                                     /\ ~ out[at].bold
                                     /\ out[at].level = 0
                                ELSE /\ Contains(out[at].text, b.point)
                                     /\ out[at].bold
                                     /\ out[at].font_size = 279400
                                     /\ b.description # "" =>
                                           /\ out[at + 1].text = b.description
                                           /\ out[at + 1].font_size = 228600
                                           /\ out[at + 1].level = 1
                                           /\ ~ out[at + 1].bold

C6_Witness ==
    /\ call.op = "_add_content_slide_v2"
    /\ Len(call.slide_data.bullets) = 3
    /\ call.slide_data.bullets[1].point = ""
    /\ call.slide_data.bullets[2].point # ""
    /\ call.slide_data.bullets[2].description = ""
    /\ call.slide_data.bullets[3].point # ""
    /\ call.slide_data.bullets[3].description # ""
    /\ \E c \in BoxesAt(457200) : Len(Emitted(subject.shapes[c])) = 4

\* the font size _add_content_slide_v2 gives a flat list of m items
FlatSizeV2(m) == FlatParagraphs([k \in 1..m |-> Item(k)])[1].font_size

\* the flat fallback of _add_content_slide_v2 was taken
FlatFallbackV2 ==
    /\ call.op = "_add_content_slide_v2"
    /\ call.slide_data.bullets = <<>>
    /\ call.slide_data.content # <<>>

\* C7 as stated: the flat fallback of the content composer emits
\* min(len(content), MAX_ITEMS) paragraphs, and its font size is a
\* non-increasing step function of the item count with three bands.
C7_AsStated ==
    FlatFallbackV2 =>
        LET n == Len(call.slide_data.content)
        IN  /\ \A c \in BoxesAt(457200) :
                  Len(Emitted(subject.shapes[c])) =
                      IF n > MAX_BULLETS THEN MAX_BULLETS ELSE n
            /\ \A m1, m2 \in 1..MaxItems :
                  m1 <= m2 => FlatSizeV2(m1) >= FlatSizeV2(m2)
            /\ Cardinality({FlatSizeV2(m) : m \in 1..MaxItems}) = 3

\* C7 amended: the flat fallback of _add_content_slide_v2 emits one
\* paragraph per item, len(content) in all with no truncation, each holding
\* its item behind the bullet glyph at the one size 18pt.  The cap of 6
\* items and the three size bands (16pt up to 3 items, 14pt up to 5, 12pt
\* beyond) are those of the legacy composer _add_content_slide alone.
C7_FlatFallback ==
    /\ FlatFallbackV2 =>
          LET content == call.slide_data.content
          IN  /\ Cardinality(BoxesAt(457200)) = 1
              /\ \A c \in BoxesAt(457200) :
                    LET out == Emitted(subject.shapes[c])
                    IN  /\ Len(out) = Len(content)
                        /\ \A k \in 1..Len(out) :
                              /\ out[k].font_size = 228600
                              /\ StartsWith(out[k].text, "*")
                              /\ Contains(out[k].text, content[k])
    /\ ( /\ call.op = "_add_content_slide"
         /\ call.slide_data.bullets = <<>>
         /\ call.slide_data.content # <<>> ) =>
          LET n == Len(call.slide_data.content)
              kept == IF n > 6 THEN 6 ELSE n
          IN  \A c \in BoxesAt(457200) :
                  LET frame == subject.shapes[c].paragraphs
                  IN  /\ Len(frame) = kept
                      /\ \A k \in 1..Len(frame) :
                            frame[k].font_size =
                                IF kept <= 3 THEN 203200
                                ELSE IF kept <= 5 THEN 177800 ELSE 152400

C7_Witness ==
    /\ FlatFallbackV2
    /\ Len(call.slide_data.content) = 7
    /\ \E c \in BoxesAt(457200) :
          /\ Len(Emitted(subject.shapes[c])) = 7
          /\ Emitted(subject.shapes[c])[7].font_size = 228600

-----------------------------------------------------------------------------
(* Properties of the Timing Graph Injector.                                *)

\* C8: however many times _set_audio_autoplay has run on a slide, and
\* whether or not the slide carried a timing subtree before a run, the slide
\* carries exactly one timing subtree afterwards; its play command targets
\* the media shape passed to the latest run, and running the injector once
\* more with that shape changes nothing.
C8_TimingLastWriteWins ==
    call.runs >= 1 =>
        /\ Len(subject.timing) = 1
        /\ subject.timing[1].cmd = "playFrom(0.0)"
        /\ subject.timing[1].spid = call.shape_id
        /\ \E m \in MediaShapes(subject) : subject.shapes[m].shape_id = call.shape_id
        /\ SetAudioAutoplay(subject, call.shape_id) = subject

\* the injector ran again on a slide that carried a subtree, for a media
\* shape other than the last one inserted
C8_Witness ==
    /\ call.op = "_set_audio_autoplay"
    /\ call.runs >= 3
    /\ call.had_timing
    /\ Cardinality(MediaShapes(subject)) >= 2
    /\ Len(subject.timing) = 1
    /\ subject.timing[1].spid = call.shape_id
    /\ subject.shapes[Len(subject.shapes)].shape_id # call.shape_id

-----------------------------------------------------------------------------
(* End-to-end scenarios of the generation call.                            *)

\* the text boxes of a slide at the place of the content area, which is
\* also the place of the left agenda column: (0.5in, 1.2in)
ContentArea(slide) ==
    {c \in 1..Len(slide.shapes) :
        /\ slide.shapes[c].kind = "textbox"
        /\ slide.shapes[c].left = 457200
        /\ slide.shapes[c].top = 1097280}

\* the text boxes of a slide at the place of the right agenda column:
\* (5.0in, 1.2in)
RightColumn(slide) ==
    {c \in 1..Len(slide.shapes) :
        /\ slide.shapes[c].kind = "textbox"
        /\ slide.shapes[c].left = 4572000
        /\ slide.shapes[c].top = 1097280}

\* the record of scenario 3: type content, two structured bullets
Scenario3(slide_data) ==
    /\ slide_data.slideType = "content"
    /\ slide_data.bullets =
          <<[emoji |-> "", point |-> "A", description |-> "d1"],
            [emoji |-> "", point |-> "", description |-> "d2"]>>

\* C11 as stated: the slide saved for a content record with the bullets
\* {point A, description d1} and {no point, description d2} has one content
\* text box, and that text box holds exactly 3 paragraphs: bold "A", plain
\* "d1" at indentation level 1, plain "d2" at the definition size 20pt.
\* Stated of the records the dispatch of lines 107-112 hands to the Content
\* composer.
C11_AsStated ==
    pc = "done" =>
        \A k \in 1..Len(slides) :
            (Scenario3(slides[k]) /\ Composer(slides[k], k - 1) = "content") =>
                /\ Cardinality(ContentArea(saved.slides[k])) = 1
                /\ \A c \in ContentArea(saved.slides[k]) :
                      LET ps == saved.slides[k].shapes[c].paragraphs
                      IN  /\ Len(ps) = 3
                          /\ ps[1].text = "A" /\ ps[1].bold
                          /\ ps[2].text = "d1" /\ ~ ps[2].bold /\ ps[2].level = 1
                          /\ ps[3].text = "d2" /\ ~ ps[3].bold
                          /\ ps[3].font_size = 254000

\* what the code does with scenario 3 when the record carries slideIndex 2:
\* the content text box holds 4 paragraphs, an empty one in front
C11_Divergence ==
    /\ pc = "done"
    /\ Len(slides) = 1
    /\ Scenario3(slides[1])
    /\ Get(slides[1], "slideIndex", 0) = 2
    /\ \E c \in ContentArea(saved.slides[1]) :
          LET ps == saved.slides[1].shapes[c].paragraphs
          IN  /\ Len(ps) = 4
              /\ ps[1] = EmptyParagraph
              /\ ps[2].text = "A" /\ ps[3].text = "d1" /\ ps[4].text = "d2"

\* C12 as stated: the slide saved for an agenda record with n >= 1 flat
\* content strings and no bullets has two column text boxes, holding
\* ceil(n/2) and floor(n/2) paragraphs; 3 and 2 for 5 strings.  Stated of
\* the records the dispatch of lines 107-112 hands to the Agenda composer.
C12_AsStated ==
    pc = "done" =>
        \A k \in 1..Len(slides) :
            ( /\ slides[k].slideType = "agenda"
              /\ Composer(slides[k], k - 1) = "agenda"
              /\ slides[k].bullets = <<>>
              /\ slides[k].content # <<>> ) =>
                LET n == Len(slides[k].content)
                    slide == saved.slides[k]
                IN  /\ Cardinality(ContentArea(slide)) = 1
                    /\ Cardinality(RightColumn(slide)) = 1
                    /\ \A c \in ContentArea(slide) :
                          Len(slide.shapes[c].paragraphs) = (n + 1) \div 2
                    /\ \A c \in RightColumn(slide) :
                          Len(slide.shapes[c].paragraphs) = n \div 2

\* what the code does with scenario 2 when the record carries slideIndex 1:
\* the columns hold 4 and 3 paragraphs, an empty one in front of each
C12_Divergence ==
    /\ pc = "done"
    /\ Len(slides) = 1
    /\ slides[1].slideType = "agenda"
    /\ Len(slides[1].content) = 5
    /\ Get(slides[1], "slideIndex", 0) = 1
    /\ \E c \in ContentArea(saved.slides[1]) :
          /\ Len(saved.slides[1].shapes[c].paragraphs) = 4
          /\ saved.slides[1].shapes[c].paragraphs[1] = EmptyParagraph
    /\ \E c \in RightColumn(saved.slides[1]) :
          /\ Len(saved.slides[1].shapes[c].paragraphs) = 3
          /\ saved.slides[1].shapes[c].paragraphs[1] = EmptyParagraph

-----------------------------------------------------------------------------
(* Properties of the Title composer.                                       *)

\* the shapes of the slide that are not the full-canvas background picture
Foreground(slide) ==
    {k \in 1..Len(slide.shapes) :
        ~ (/\ slide.shapes[k].kind = "picture"
           /\ slide.shapes[k].left = 0
           /\ slide.shapes[k].top = 0
           /\ slide.shapes[k].width = 9144000
           /\ slide.shapes[k].height = 5143500)}

\* the text boxes of the slide, in the order of the shape tree
TextBoxes(slide) ==
    SelectSeq(slide.shapes, LAMBDA sh : sh.kind = "textbox")

\* C13: on a slide without shapes, _add_title_slide adds one text box holding
\* the record's title in one paragraph and, if and only if the record has a
\* non-empty first content string, one more text box holding that string in
\* one paragraph; besides an optional background picture it adds nothing
\* else: no paragraph for a bullet or a later content string, no picture of
\* the record's image.  For title "Lesson 1" and content <<"Intro course">>
\* the texts are "Lesson 1" and "Intro course".
C13_TitleComposer ==
    call.op = "_add_title_slide" =>
        LET slide_data == call.slide_data
            content == slide_data.content
            has_subtitle == content # <<>> /\ content[1] # ""
            boxes == TextBoxes(subject)
        IN  /\ \A k \in Foreground(subject) : subject.shapes[k].kind = "textbox"
            /\ Len(boxes) = IF has_subtitle THEN 2 ELSE 1
            /\ \A k \in 1..Len(boxes) : Len(boxes[k].paragraphs) = 1
            /\ boxes[1].paragraphs[1].text = slide_data.title
            /\ boxes[1].paragraphs[1].bold
            /\ has_subtitle =>
                  /\ boxes[2].paragraphs[1].text = content[1]
                  /\ boxes[2].top > boxes[1].top
            /\ ( slide_data.title = "Lesson 1" /\ content = <<"Intro course">> ) =>
                  /\ boxes[1].paragraphs[1].text = "Lesson 1"
                  /\ boxes[2].paragraphs[1].text = "Intro course"
            /\ Len(subject.shapes) - Cardinality(Foreground(subject)) <= 1

\* scenario 1 composed on a record that also carries a bullet and an image
C13_Witness ==
    /\ call.op = "_add_title_slide"
    /\ call.slide_data.title = "Lesson 1"
    /\ call.slide_data.content = <<"Intro course">>
    /\ call.slide_data.bullets # <<>>
    /\ call.slide_data.imagePath = "pic.png"
    /\ Len(TextBoxes(subject)) = 2
    /\ TextBoxes(subject)[1].paragraphs[1].text = "Lesson 1"
    /\ TextBoxes(subject)[2].paragraphs[1].text = "Intro course"

\* the title composed from a record whose first content string is empty
C13_WitnessNoSubtitle ==
    /\ call.op = "_add_title_slide"
    /\ call.slide_data.content = <<"", "later">>
    /\ Len(TextBoxes(subject)) = 1

-----------------------------------------------------------------------------
(* Properties of the service over the temporary storage.                   *)

\* the requests that hold an allocated path and have not answered yet
InFlight ==
    {r \in Requests : call.requests[r].pc \in {"allocated", "saved", "encoded"}}

\* C14 as stated: at every moment the requests in flight hold pairwise
\* distinct artifact paths, and no save has replaced the artifact of another
\* request.
C14_AsStated ==
    /\ \A r1, r2 \in InFlight :
          r1 # r2 => call.requests[r1].output_path # call.requests[r2].output_path
    /\ \A r \in Requests : call.requests[r].replaced = 0

\* two requests were given the same path and the later save replaced the
\* earlier artifact
C14_Divergence ==
    \E r1, r2 \in Requests :
        /\ r1 # r2
        /\ call.requests[r1].output_path = call.requests[r2].output_path
        /\ call.requests[r1].pc = "saved"
        /\ call.requests[r2].pc = "saved"
        /\ call.requests[r2].replaced = r1

\* C19 as stated: when a generate-buffer request that saved an artifact has
\* answered, with success or with an error, its artifact is no longer in the
\* temporary storage.
C19_AsStated ==
    \A r \in Requests :
        ( /\ call.requests[r].mode = "generate-buffer"
          /\ call.requests[r].pc = "responded"
          /\ call.requests[r].output_path # "" ) =>
            subject[call.requests[r].output_path] # r

\* a generate-buffer request answered 500 after its read raised, no other
\* request sharing its path, and its artifact is still stored
C19_Divergence ==
    \E r \in Requests :
        /\ call.requests[r].mode = "generate-buffer"
        /\ call.requests[r].pc = "responded"
        /\ call.requests[r].status = 500
        /\ call.requests[r].read_raises
        /\ call.requests[r].output_path # ""
        /\ call.requests[r].replaced = 0
        /\ \A q \in Requests \ {r} :
              call.requests[q].output_path # call.requests[r].output_path
        /\ subject[call.requests[r].output_path] = r

-----------------------------------------------------------------------------
(* Faults of the generation call.                                          *)

\* the file can be inserted as a picture or a movie
Insertable(path) == path # "" /\ os_path_exists(path) /\ ~ InsertRaises(path)

\* the slide was composed from the record in spite of its faults: its first
\* text box holds the record's title, its speaker notes are set, no shape
\* comes from a file that is missing, unreadable or of an unsupported audio
\* format, and without a valid audio file it holds no media and no timing
ComposedDespiteFaults(slide, slide_data, k) ==
    /\ slide.rec = k
    /\ TextBoxes(slide) # <<>>
    /\ TextBoxes(slide)[1].paragraphs[1].text = slide_data.title
    /\ slide_data.speakerNote # "" => slide.notes = slide_data.speakerNote
    /\ \A c \in 1..Len(slide.shapes) :
          /\ slide.shapes[c].kind \in {"picture", "media"} =>
                Insertable(slide.shapes[c].path)
          /\ slide.shapes[c].kind = "media" =>
                Lower(SplitExt(slide.shapes[c].path)) \in SupportedFormats
    /\ ~ ValidAudio(slide_data) => (MediaShapes(slide) = {} /\ slide.timing = <<>>)
    /\ Composer(slide_data, k - 1) = "content" =>
          /\ ContentArea(slide) # {}
          /\ \A c \in ContentArea(slide) : Len(slide.shapes[c].paragraphs) > 1
          /\ Insertable(slide_data.imagePath) =>
                \E c \in 1..Len(slide.shapes) :
                    slide.shapes[c].path = slide_data.imagePath

\* C15: a missing or unreadable background, a missing or unreadable image, a
\* missing audio file, an unsupported audio format and a media insertion
\* that raises never end the call: the call ends with an exception only on
\* an empty layout catalog; every record the loop has gone past left a
\* slide composed but for the shape its fault concerns, and the loop went
\* on to the records after it; the document saved at the returned path
\* holds one such slide per record.
C15_FaultsAbsorbed ==
    /\ pc = "raised" => prs.slide_layouts = <<>>
    /\ pc \in {"resolve", "sanitize", "compose", "audio", "timing", "mktemp", "save"} =>
          /\ i <= Len(slides)
          /\ pc \in {"mktemp", "save"} <=> i = Len(slides)
          /\ \A k \in 1..i : ComposedDespiteFaults(prs.slides[k], slides[k], k)
    /\ pc = "done" =>
          /\ output_path \in TempNames
          /\ saved = prs
          /\ Len(saved.slides) = Len(slides)
          /\ \A k \in 1..Len(slides) :
                ComposedDespiteFaults(saved.slides[k], slides[k], k)

\* a call returned whose first record had an unreadable background, an
\* unreadable image and an unsupported audio format, and whose second
\* record, after an audio insertion that raised, was composed all the same
C15_Witness ==
    /\ pc = "done"
    /\ Len(slides) = 2
    /\ content_bg_path = "broken.png"
    /\ slides[1].imagePath = "broken.png"
    /\ slides[1].audioPath = "voice.ogg"
    /\ slides[2].audioPath = "locked.m4a"
    /\ \A c \in 1..Len(saved.slides[1].shapes) :
          saved.slides[1].shapes[c].kind = "textbox"
    /\ ContentArea(saved.slides[1]) # {}
    /\ RightColumn(saved.slides[2]) # {}
    /\ MediaShapes(saved.slides[2]) = {}

-----------------------------------------------------------------------------
(* Properties of the Media Attacher.                                       *)

\* the lookup table of MIME types, for the supported extensions
MimeTable ==
    [e \in {".mp3", ".wav", ".m4a", ".wma"} |->
        CASE e = ".mp3" -> "audio/mpeg"
          [] e = ".wav" -> "audio/wav"
          [] e = ".m4a" -> "audio/mp4"
          [] e = ".wma" -> "audio/x-ms-wma"]

\* C16: _add_audio_with_autoplay on a file whose lower-cased extension is
\* not one of .mp3, .wav, .m4a, .wma leaves the slide as it was: no media
\* shape, no timing subtree, nothing else changed.  On a file with a
\* supported extension whose insertion succeeds it appends one media shape
\* for that file whose MIME type is the table's value for the extension.
\* No media shape of the slide ever comes from an unsupported extension, so
\* none carries the default MIME type for want of a table entry.
C16_ExtensionValidated ==
    /\ \A m \in MediaShapes(subject) :
          LET ext == Lower(SplitExt(subject.shapes[m].path))
          IN  /\ ext \in {".mp3", ".wav", ".m4a", ".wma"}
              /\ subject.shapes[m].mime = MimeTable[ext]
    /\ call.op = "_add_audio_with_autoplay" =>
          LET ext == Lower(SplitExt(call.audio_path))
          IN  /\ ext \notin {".mp3", ".wav", ".m4a", ".wma"} => subject = call.before
              /\ (ext \in {".mp3", ".wav", ".m4a", ".wma"}
                     /\ ~ InsertRaises(call.audio_path)) =>
                    /\ Len(subject.shapes) = Len(call.before.shapes) + 1
                    /\ subject.shapes[Len(subject.shapes)].kind = "media"
                    /\ subject.shapes[Len(subject.shapes)].path = call.audio_path
                    /\ subject.shapes[Len(subject.shapes)].mime = MimeTable[ext]

\* an unsupported file was skipped on a slide that already held a media shape
\* from an upper-case extension
C16_Witness ==
    /\ call.op = "_add_audio_with_autoplay"
    /\ call.audio_path = "voice.ogg"
    /\ subject = call.before
    /\ \E m \in MediaShapes(subject) :
          /\ subject.shapes[m].path = "talk.WAV"
          /\ subject.shapes[m].mime = "audio/wav"

\* a file without extension was skipped on a slide without media
C16_WitnessNoExtension ==
    /\ call.op = "_add_audio_with_autoplay"
    /\ call.audio_path = "noext"
    /\ MediaShapes(subject) = {}
    /\ subject.timing = call.before.timing

-----------------------------------------------------------------------------
(* The style source of the generation call.                                *)

\* the template path is the sentinel 'blank' or names no existing file
NoStyleSource == template_path = "blank" \/ ~ os_path_exists(template_path)

\* C17: when the template path names no existing file or is the sentinel
\* 'blank', the call goes on with a blank document: its canvas is 10in by
\* 5.625in (9144000 by 5143500 EMU) from the moment it is created to the
\* saved document, it holds no slide when composition starts, so the clear
\* loop never runs and every slide it ever holds is a composed one, and the
\* call ends with an exception only on an empty layout catalog.
C17_BlankFallback ==
    (NoStyleSource /\ pc # "load") =>
        /\ prs.slide_width = 9144000
        /\ prs.slide_height = 5143500
        /\ pc # "clear"
        /\ (pc = "resolve" /\ i = 0) => prs.slides = <<>>
        /\ \A k \in 1..Len(prs.slides) : prs.slides[k].rec = k
        /\ pc = "raised" => prs.slide_layouts = <<>>
        /\ pc = "done" =>
              /\ saved.slide_width = 9144000
              /\ saved.slide_height = 5143500
              /\ Len(saved.slides) = Len(slides)

\* a call given the path of a missing template returned a document of two
\* slides on the default canvas
C17_Witness ==
    /\ template_path = "missing.pptx"
    /\ pc = "done"
    /\ Len(saved.slides) = 2
    /\ saved.slide_width = 9144000
    /\ saved.slide_height = 5143500

\* C18 as stated: on an empty layout catalog the call never returns and
\* saves no artifact.
C18_AsStated ==
    source.slide_layouts = <<>> =>
        /\ pc \notin {"mktemp", "save", "done"}
        /\ output_path = ""
        /\ saved = NoDocument

\* C18 amended: on an empty layout catalog a call with at least one record
\* ends with the exception of _find_blank_layout at its first record: it
\* never gets past the layout resolution, adds no slide, allocates no path
\* and saves no artifact; and an exception ends the call on no other
\* catalog.  (A call with no record never resolves a layout and returns a
\* document without slides.)
C18_EmptyCatalogFatal ==
    /\ (source.slide_layouts = <<>> /\ slides # <<>>) =>
          /\ pc \in {"load", "clear", "resolve", "raised"}
          /\ i = 0
          /\ pc \in {"resolve", "raised"} => prs.slides = <<>>
          /\ output_path = ""
          /\ saved = NoDocument
    /\ pc = "raised" => (source.slide_layouts = <<>> /\ slides # <<>>)

\* a call on a template with slides and no layout raised at the first of
\* its two records
C18_Witness ==
    /\ pc = "raised"
    /\ UsesTemplate(template_path)
    /\ Len(source.slides) >= 1
    /\ Len(slides) = 2
    /\ prs.slides = <<>>
    /\ saved = NoDocument

-----------------------------------------------------------------------------
(* Properties of the background picture.                                   *)

\* the positions in the shape tree of the pictures made from the file
PicturesOf(slide, path) ==
    {k \in 1..Len(slide.shapes) :
        slide.shapes[k].kind = "picture" /\ slide.shapes[k].path = path}

\* C20: when _add_title_slide, _add_agenda_slide or _add_content_slide_v2
\* returns from a call given a background path that names a readable file,
\* the slide holds exactly one picture of that file, covering the canvas
\* from (0, 0), and it is the first shape of the shape tree: every other
\* shape, the title, the text boxes and the image, comes after it.  Given no
\* path, a missing file or an unreadable one, no background picture is
\* added.
C20_BackgroundFirst ==
    call.op \in {"_add_title_slide", "_add_agenda_slide", "_add_content_slide_v2"} =>
        IF call.bg_path # "" /\ os_path_exists(call.bg_path)
              /\ ~ InsertRaises(call.bg_path)
        THEN /\ PicturesOf(subject, call.bg_path) = {1}
             /\ subject.shapes[1].left = 0
             /\ subject.shapes[1].top = 0
             /\ subject.shapes[1].width = 9144000
             /\ subject.shapes[1].height = 5143500
             /\ Len(subject.shapes) >= 2
             /\ \A k \in 2..Len(subject.shapes) :
                   subject.shapes[k].shape_id > subject.shapes[1].shape_id
        ELSE Foreground(subject) = 1..Len(subject.shapes)

\* the content composer returned a slide whose background is first, before
\* the title, the content text box and the image
C20_Witness ==
    /\ call.op = "_add_content_slide_v2"
    /\ call.bg_path = "bg_content.png"
    /\ call.slide_data.imagePath = "pic.png"
    /\ Len(subject.shapes) = 4
    /\ PicturesOf(subject, "bg_content.png") = {1}
    /\ PicturesOf(subject, "pic.png") = {4}
    /\ subject.shapes[2].kind = "textbox"

-----------------------------------------------------------------------------
(* Properties of the canvas.                                               *)

\* the canvas of a document
CanvasOf(doc) == <<doc.slide_width, doc.slide_height>>

\* the positions of the slides of a document that were composed from a
\* record
ComposedSlides(doc) == {k \in 1..Len(doc.slides) : doc.slides[k].rec > 0}

\* C21: within one call of generate_presentation the canvas of the document
\* changes in at most one step, the one that opens or creates the document:
\* that step is taken once, with no record processed and no slide composed,
\* every later step leaves the canvas as it is, and the document written by
\* prs.save has that same canvas.
C21_CanvasSetOnce ==
    [][/\ CanvasOf(prs') # CanvasOf(prs) =>
              /\ pc = "load"
              /\ pc' # "load"
              /\ i' = 0
              /\ ComposedSlides(prs') = {}
       /\ pc # "load" => pc' # "load"
       /\ saved' # saved =>
              /\ pc' = "done"
              /\ CanvasOf(saved') = CanvasOf(prs)
              /\ CanvasOf(prs') = CanvasOf(prs)]_vars

\* a blank document of two composed slides was written with the 16:9 canvas
\* set before the first slide was added
C21_Witness ==
    /\ pc = "done"
    /\ ~ UsesTemplate(template_path)
    /\ CanvasOf(source) = <<9144000, 6858000>>
    /\ CanvasOf(prs) = <<9144000, 5143500>>
    /\ CanvasOf(saved) = <<9144000, 5143500>>
    /\ ComposedSlides(saved) = {1, 2}

-----------------------------------------------------------------------------
(* Properties of the control flow.                                         *)

\* the positions a step of the call may lead to from position p
StageSuccessors(p) ==
    CASE p = "load"     -> {"clear", "resolve", "mktemp"}
      [] p = "clear"    -> {"clear", "resolve", "mktemp"}
      [] p = "resolve"  -> {"sanitize", "raised"}
      [] p = "sanitize" -> {"compose"}
      [] p = "compose"  -> {"audio"}
      [] p = "audio"    -> {"timing", "resolve", "mktemp"}
      [] p = "timing"   -> {"resolve", "mktemp"}
      [] p = "mktemp"   -> {"save"}
      [] p = "save"     -> {"done"}
      [] OTHER          -> {}

\* the slide holds nothing but what add_slide cloned from the layout
OnlyLayoutShapes(slide) ==
    /\ \A k \in 1..Len(slide.shapes) : slide.shapes[k].kind = "placeholder"
    /\ slide.timing = <<>>
    /\ slide.notes = ""

\* the slides of both documents at position k differ in what f reads
Differ(f(_), k) ==
    /\ k <= Len(prs.slides)
    /\ k <= Len(prs'.slides)
    /\ f(prs'.slides[k]) # f(prs.slides[k])

\* the kinds of the shapes of a slide other than layout placeholders
ComposedKinds(slide) ==
    SelectSeq([k \in 1..Len(slide.shapes) |-> slide.shapes[k].kind],
              LAMBDA kind : kind # "placeholder")

TimingOf(slide) == slide.timing

\* the targets of the play commands of the slide's timing subtrees
PlayCommands(slide) ==
    SelectSeq([k \in 1..Len(slide.timing) |->
                  IF slide.timing[k].cmd # "" THEN slide.timing[k].spid ELSE -1],
              LAMBDA spid : spid # -1)

\* C22: every step of a generation call follows the order Loader, then per
\* record Layout Resolver, Sanitizer, Composer, Media Attacher, Timing
\* Injector, then Serializer.  The Layout Resolver adds the slide of the
\* next record; the Sanitizer runs on it while it holds nothing but layout
\* placeholders; the one Composer step of the record is the first to add a
\* shape, and it works on the sanitized slide; a media shape is added only
\* by the Media Attacher, after the Composer, and add_movie enters it in
\* the slide's timing; the play command is written only by the Timing
\* Injector, on the slide whose last shape is the media shape just
\* inserted; the Serializer writes the document once, after every record
\* has been composed, and a call that returns has written it.
C22_StageOrder ==
    [][/\ pc' \in StageSuccessors(pc)
       /\ pc' = "sanitize" =>
              /\ pc = "resolve"
              /\ Len(prs'.slides) = Len(prs.slides) + 1
              /\ prs'.slides[Len(prs'.slides)].rec = i + 1
              /\ OnlyLayoutShapes(prs'.slides[Len(prs'.slides)])
       /\ pc = "sanitize" =>
              /\ OnlyLayoutShapes(prs.slides[Current])
              /\ OnlyLayoutShapes(prs'.slides[Current])
       /\ \A k \in 1..Len(prs.slides) :
              /\ Differ(ComposedKinds, k) =>
                     /\ pc \in {"compose", "audio"}
                     /\ k = Current
                     /\ prs.slides[k].rec = i + 1
              /\ (Differ(ComposedKinds, k) /\ pc = "compose") =>
                     /\ ComposedKinds(prs.slides[k]) = <<>>
                     /\ MediaShapes(prs.slides[k]) = {}
                     /\ MediaShapes(prs'.slides[k]) = {}
              /\ (Differ(ComposedKinds, k) /\ pc = "audio") =>
                     /\ pc' = "timing"
                     /\ ComposedKinds(prs'.slides[k]) =
                            Append(ComposedKinds(prs.slides[k]), "media")
              /\ Differ(TimingOf, k) =>
                     /\ pc \in {"audio", "timing"}
                     /\ k = Current
                     /\ pc = "audio" <=> Differ(ComposedKinds, k)
              /\ Differ(PlayCommands, k) =>
                     /\ pc = "timing"
                     /\ k = Current
                     /\ prs.slides[k].rec = i + 1
                     /\ prs.slides[k].shapes[Len(prs.slides[k].shapes)].kind = "media"
                     /\ prs'.slides[k].shapes = prs.slides[k].shapes
       /\ pc \in {"sanitize", "compose", "audio", "timing"} =>
              /\ Len(prs.slides) = i + 1
              /\ Len(prs'.slides) = i + 1
       /\ i' # i => (i' = i + 1 /\ pc \in {"audio", "timing"})
       /\ saved' # saved =>
              /\ pc = "save"
              /\ saved = NoDocument
              /\ saved' = prs
              /\ i = Len(slides)
              /\ ComposedSlides(prs) = 1..Len(slides)
              /\ Len(prs.slides) = Len(slides)
       /\ pc' = "done" => saved' # NoDocument]_vars

\* a call on a template whose layout has placeholders returned after two
\* records, the second with a media shape and its timing subtree
C22_Witness ==
    /\ pc = "done"
    /\ UsesTemplate(template_path)
    /\ Len(slides) = 2
    /\ NumPlaceholders(source.slide_layouts[saved.slides[2].layout]) > 0
    /\ ComposedSlides(saved) = {1, 2}
    /\ MediaShapes(saved.slides[1]) = {}
    /\ MediaShapes(saved.slides[2]) # {}
    /\ Len(saved.slides[2].timing) = 1

-----------------------------------------------------------------------------
(* Properties of the dispatch.                                             *)

\* the frames (left, top, width, height), in inches, of the text boxes of a
\* slide, in the order of the shape tree
Frames(slide) ==
    LET boxes == TextBoxes(slide)
    IN  [k \in 1..Len(boxes) |->
            <<boxes[k].left, boxes[k].top, boxes[k].width, boxes[k].height>>]

Frame(left, top, width, height) ==
    <<Inches(left), Inches(top), Inches(width), Inches(height)>>

\* the composers whose text boxes the slide holds, and no other text box
AppliedComposers(slide) ==
    {c \in {"title", "agenda", "content"} :
        CASE c = "title" ->
                 Frames(slide) \in
                     {<<Frame(1000, 2000, 8000, 1500)>>,
                      <<Frame(1000, 2000, 8000, 1500), Frame(1000, 3500, 8000, 1000)>>}
          [] c = "agenda" ->
                 Frames(slide) \in
                     {<<Frame(500, 200, 9000, 800)>>,
                      <<Frame(500, 200, 9000, 800), Frame(500, 1200, 4500, 4000),
                        Frame(5000, 1200, 4500, 4000)>>}
          [] c = "content" ->
                 Frames(slide) \in
                     {<<Frame(500, 200, 9000, 800), Frame(500, 1200, 9000, 4000)>>,
                      <<Frame(500, 200, 9000, 800), Frame(500, 1200, 4500, 4000)>>}}

\* the slide index of record k (from 1): its slideIndex field, or its
\* position in the list counted from 0
SlideIndexOf(k) ==
    IF "slideIndex" \in DOMAIN slides[k] THEN slides[k].slideIndex ELSE k - 1

\* the composer the stated precedence gives record k
ByPrecedence(k) ==
    IF slides[k].slideType = "title" \/ SlideIndexOf(k) = 0 THEN "title"
    ELSE IF slides[k].slideType \in {"agenda", "objectives"} \/ SlideIndexOf(k) = 1
    THEN "agenda"
    ELSE "content"

\* the records whose composer has returned
ComposedRecords ==
    {k \in 1..Len(prs.slides) :
        /\ prs.slides[k].rec = k
        /\ k <= i \/ (k = i + 1 /\ pc \in {"audio", "timing"})}

\* C23: the slide of every composed record holds the text boxes of exactly
\* one composer: the Title composer if the type tag is 'title' or the slide
\* index is 0, otherwise the Agenda composer if the type tag is 'agenda' or
\* 'objectives' or the slide index is 1, otherwise the Content composer,
\* the slide index being the slideIndex field or, without one, the position
\* in the list.  A record of slide index 0 gets a title slide and a record
\* of slide index 1 whose type is not 'title' an agenda slide, whatever
\* their type tags.
C23_ComposerPrecedence ==
    /\ Composing => ComposedRecords = 1..(IF pc \in {"audio", "timing"} THEN i + 1 ELSE i)
    /\ \A k \in ComposedRecords :
          /\ AppliedComposers(prs.slides[k]) = {ByPrecedence(k)}
          /\ SlideIndexOf(k) = 0 => AppliedComposers(prs.slides[k]) = {"title"}
          /\ (SlideIndexOf(k) = 1 /\ slides[k].slideType # "title") =>
                 AppliedComposers(prs.slides[k]) = {"agenda"}

\* two content records without a slide index were composed as a title slide
\* and an agenda slide
C23_Witness ==
    /\ pc = "done"
    /\ Len(slides) = 2
    /\ \A k \in 1..2 : slides[k].slideType = "content"
    /\ "slideIndex" \notin DOMAIN slides[1]
    /\ "slideIndex" \notin DOMAIN slides[2]
    /\ AppliedComposers(saved.slides[1]) = {"title"}
    /\ AppliedComposers(saved.slides[2]) = {"agenda"}

\* a content record with slide index 2 in first position was composed as a
\* content slide and an 'objectives' record with slide index 3 as an agenda
\* slide
C23_WitnessByTag ==
    /\ pc = "done"
    /\ Len(slides) = 2
    /\ slides[1].slideType = "content"
    /\ SlideIndexOf(1) = 2
    /\ slides[2].slideType = "objectives"
    /\ SlideIndexOf(2) = 3
    /\ AppliedComposers(saved.slides[1]) = {"content"}
    /\ AppliedComposers(saved.slides[2]) = {"agenda"}

-----------------------------------------------------------------------------
(* The frame of the Placeholder Sanitizer.                                 *)

\* the identifiers of the shapes of a slide
ShapeIds(slide) == {slide.shapes[k].shape_id : k \in 1..Len(slide.shapes)}

\* the shape is flagged as a placeholder
FlaggedShape(shape) == shape.is_placeholder \/ shape.placeholder_format

\* the text of the shape holds the string, whatever the case of its letters
TextHas(shape, needle) == Contains(Lower(JoinText(shape.paragraphs)), needle)

\* an accessor raised while the shape was inspected: placeholder_format,
\* read when the shape is no placeholder, or text_frame, read when the shape
\* has no placeholder format either
InspectionRaised(shape) ==
    /\ ~ shape.is_placeholder
    /\ \/ shape.inspect = "placeholder_format"
       \/ (~ shape.placeholder_format /\ shape.inspect = "text_frame")

\* C24: _clear_placeholders removes only shapes that are flagged as
\* placeholders or whose text holds 'click to' or 'master' in any case;
\* every other shape, and every shape whose inspection raised, stays on the
\* slide; the shapes that stay are the ones the slide held, unchanged (text
\* included) and in the order they had; a removed shape is gone from the
\* shape tree, not left behind with its text cleared; nothing else of the
\* slide changes.
C24_SanitizerFrame ==
    call.op = "_clear_placeholders" =>
        LET before == call.before.shapes
            kept   == ShapeIds(subject)
        IN  /\ \A k \in 1..Len(before) :
                  /\ before[k].shape_id \notin kept =>
                         \/ FlaggedShape(before[k])
                         \/ TextHas(before[k], "click to")
                         \/ TextHas(before[k], "master")
                  /\ ( /\ ~ FlaggedShape(before[k])
                       /\ ~ TextHas(before[k], "click to")
                       /\ ~ TextHas(before[k], "master") ) =>
                         before[k].shape_id \in kept
                  /\ InspectionRaised(before[k]) => before[k].shape_id \in kept
            /\ subject.shapes = SelectSeq(before, LAMBDA sh : sh.shape_id \in kept)
            /\ Len(subject.shapes) = Cardinality(kept)
            /\ subject = [call.before EXCEPT !.shapes = subject.shapes]

\* a slide of three shapes, a text box reading 'MASTER STYLE', a text box
\* reading 'Click to add text' whose placeholder_format raises and a text
\* box reading 'Lesson 1', lost the first and kept the other two, in order
\* and with their text
C24_Witness ==
    /\ call.op = "_clear_placeholders"
    /\ Len(call.before.shapes) = 3
    /\ \A k \in 1..3 : ~ FlaggedShape(call.before.shapes[k])
    /\ TextHas(call.before.shapes[1], "master")
    /\ call.before.shapes[1].inspect = "none"
    /\ TextHas(call.before.shapes[2], "click to")
    /\ InspectionRaised(call.before.shapes[2])
    /\ call.before.shapes[3].paragraphs[1].text = "Lesson 1"
    /\ subject.shapes = <<call.before.shapes[2], call.before.shapes[3]>>

-----------------------------------------------------------------------------
(* Per-slide invariants of media and timing.                               *)

\* the identifiers of the media shapes of a slide
MediaIds(slide) == {slide.shapes[m].shape_id : m \in MediaShapes(slide)}

\* the shapes a timing subtree targets: the target of its play command, if
\* it has one, and the targets of its video nodes
TimingTargets(t) ==
    (IF t.cmd # "" THEN {t.spid} ELSE {})
    \cup {t.video[v] : v \in 1..Len(t.video)}

\* C25: in every state of a generation call, every composed slide of the
\* document in memory and of the saved document carries at most one media
\* shape and at most one timing subtree; it carries a timing subtree only
\* if it carries a media shape; and every target of that subtree, the one
\* of its play command included, is the identifier of a media shape of the
\* same slide.
C25_OneMediaOneTiming ==
    \A doc \in {prs, saved} :
        \A k \in ComposedSlides(doc) :
            LET slide == doc.slides[k]
            IN  /\ Cardinality(MediaShapes(slide)) <= 1
                /\ Len(slide.timing) <= 1
                /\ slide.timing # <<>> => MediaShapes(slide) # {}
                /\ \A t \in 1..Len(slide.timing) :
                      /\ TimingTargets(slide.timing[t]) # {}
                      /\ TimingTargets(slide.timing[t]) \subseteq MediaIds(slide)

\* a saved document of two slides, each with one media shape and one timing
\* subtree whose play command targets it, under different identifiers
C25_Witness ==
    /\ pc = "done"
    /\ Len(saved.slides) = 2
    /\ \A k \in 1..2 :
          /\ Cardinality(MediaShapes(saved.slides[k])) = 1
          /\ Len(saved.slides[k].timing) = 1
          /\ saved.slides[k].timing[1].cmd = "playFrom(0.0)"
          /\ {saved.slides[k].timing[1].spid} = MediaIds(saved.slides[k])
    /\ saved.slides[1].timing[1].spid # saved.slides[2].timing[1].spid

\* between add_movie and _set_audio_autoplay the slide carries the timing
\* subtree add_movie made, with no play command
C25_WitnessBeforeInjection ==
    /\ pc = "timing"
    /\ Len(prs.slides[Current].timing) = 1
    /\ prs.slides[Current].timing[1].cmd = ""
    /\ TimingTargets(prs.slides[Current].timing[1]) = MediaIds(prs.slides[Current])

====
